---------------------------- MODULE Spec2Model ----------------------------
(***************************************************************************)
(* A model of the DEX adapter / transaction assembly layer of              *)
(* solana-dex-service: the adapters (Raydium, Pumpfun, PumpSwap), the      *)
(* shared BaseAdapter (validation, slippage arithmetic, HTTP retry loop),  *)
(* the AdapterRegistry, the TransactionService that encodes requests into *)
(* transactions and tests them against the ledger, and the ConfigService   *)
(* and DEXService that share its configuration.                            *)
(*                                                                         *)
(* Go values are modelled as follows.                                      *)
(*  - a string that is meant to hold an address is a sequence of base58    *)
(*    characters, each character being its index 0..57 in the base58       *)
(*    alphabet (the alphabet is ascending in ASCII, so index order is byte *)
(*    order); index 58 stands for a character outside the alphabet;        *)
(*  - a solana.PublicKey is [raw |-> bytes] when it was parsed from a      *)
(*    string and [pda |-> seeds, prog |-> key] when it was derived by      *)
(*    FindProgramAddress, the hash being kept symbolic (injective);        *)
(*  - a float64 is [m |-> mantissa, e |-> exponent], the value m * 2^e,    *)
(*    with mantissas of MantBits bits and round-to-nearest-even;           *)
(*  - a uint64 is a natural number below 2^UintBits;                       *)
(*  - a Go error is its message, NoErr standing for nil.                   *)
(***************************************************************************)
EXTENDS Integers, Sequences, FiniteSets, TLC

(***************************************************************************)
(* Bounds of the model.                                                    *)
(***************************************************************************)
\* length in bytes of a public key (32 in solana-go; the keys of the model
\* are KeyLen bytes long)
KeyLen == 2
\* bits of a float64 mantissa in the model (53 in IEEE 754 binary64)
MantBits == 10
\* how many bits a uint64 has beyond the float mantissa (64 - 53 = 11)
ExtraBits == 2
\* the largest config.RetryCount the retry loop is run with
MaxRetry == 3
\* the largest number of Register calls on one AdapterRegistry
MaxRegister == 4
\* the configuration changes that run concurrently with one ListDEXes
MaxOverlap == 1

UintBits == MantBits + ExtraBits

RECURSIVE Pow2(_)
Pow2(n) == IF n <= 0 THEN 1 ELSE 2 * Pow2(n - 1)

MaxUint == Pow2(UintBits) - 1

NoErr == "<nil>"
\* the outcome of a call that does not return: a run-time panic
\* (nil pointer dereference) unwinding into the caller
Panic == "panic: runtime error: invalid memory address or nil pointer dereference"

Nil == [nil |-> TRUE]

(***************************************************************************)
(* Base58 strings and public keys (github.com/gagliardetto/solana-go, used *)
(* by every adapter through solana.PublicKeyFromBase58 and key.String()).  *)
(***************************************************************************)
Zeros(n) == [i \in 1..n |-> 0]

RECURSIVE LeadingZeros(_)
LeadingZeros(s) ==
    IF s # <<>> /\ Head(s) = 0 THEN 1 + LeadingZeros(Tail(s)) ELSE 0

\* the number a big-endian digit sequence denotes
RECURSIVE DigitsToNat(_, _)
DigitsToNat(ds, radix) ==
    IF ds = <<>> THEN 0
    ELSE DigitsToNat(SubSeq(ds, 1, Len(ds) - 1), radix) * radix + ds[Len(ds)]

\* the big-endian digits of a number, without leading zeros
RECURSIVE NatToDigits(_, _)
NatToDigits(n, radix) ==
    IF n = 0 THEN <<>>
    ELSE Append(NatToDigits(n \div radix, radix), n % radix)

\* base58.Encode: one '1' (index 0) per leading zero byte, then the number
Base58Encode(bytes) ==
    Zeros(LeadingZeros(bytes)) \o NatToDigits(DigitsToNat(bytes, 256), 58)

Base58Valid(str) == \A i \in 1..Len(str) : str[i] \in 0..57

\* base58.Decode of a string of valid characters
Base58Decode(str) ==
    Zeros(LeadingZeros(str)) \o NatToDigits(DigitsToNat(str, 58), 256)

\* solana.PublicKeyFromBase58: [err, key]
PublicKeyFromBase58(str) ==
    IF ~Base58Valid(str)
    THEN [err |-> "decode: invalid base58 digit", key |-> Nil]
    ELSE IF Len(Base58Decode(str)) # KeyLen
    THEN [err |-> "invalid length", key |-> Nil]
    ELSE [err |-> NoErr, key |-> [raw |-> Base58Decode(str)]]

\* solana.PublicKey.String() of a parsed key
KeyString(key) == Base58Encode(key.raw)

\* Go's s < t on strings: bytewise lexicographic, a proper prefix is less
RECURSIVE StrLess(_, _)
StrLess(s, t) ==
    IF t = <<>> THEN FALSE
    ELSE IF s = <<>> THEN TRUE
    ELSE IF Head(s) # Head(t) THEN Head(s) < Head(t)
    ELSE StrLess(Tail(s), Tail(t))

\* the key whose bytes are the big-endian bytes of n
KeyFromNat(n) ==
    [raw |-> Zeros(KeyLen - Len(NatToDigits(n, 256))) \o NatToDigits(n, 256)]

\* a seed of FindProgramAddress: literal bytes, or the bytes of an address
SeedLit(bytes) == [lit |-> bytes]
SeedOf(key) == IF "raw" \in DOMAIN key THEN [lit |-> key.raw] ELSE [addr |-> key]

\* solana.FindProgramAddress: a function of (seeds, programID) alone
FindProgramAddress(seeds, programID) == [pda |-> seeds, prog |-> programID]

TokenProgramID == KeyFromNat(6)
SystemProgramID == KeyFromNat(0)
AssociatedTokenProgramID == KeyFromNat(7)

\* solana.FindAssociatedTokenAddress(wallet, mint)
FindAssociatedTokenAddress(wallet, mint) ==
    FindProgramAddress(<<SeedOf(wallet), SeedOf(TokenProgramID), SeedOf(mint)>>,
                       AssociatedTokenProgramID)

(***************************************************************************)
(* float64 arithmetic, as far as calculateMinAmountOut uses it.            *)
(***************************************************************************)
Float(m, e) == [m |-> m, e |-> e]

Abs(n) == IF n < 0 THEN -n ELSE n

RECURSIVE BitLen(_)
BitLen(n) == IF n = 0 THEN 0 ELSE 1 + BitLen(n \div 2)

\* the float nearest to n * 2^e, ties to the even mantissa
RoundFloat(n, e) ==
    LET k == BitLen(Abs(n)) - MantBits
    IN  IF k <= 0 THEN Float(n, e)
        ELSE LET q    == Abs(n) \div Pow2(k)
                 r    == Abs(n) % Pow2(k)
                 half == Pow2(k - 1)
                 up   == r > half \/ (r = half /\ q % 2 = 1)
                 mag  == IF up THEN q + 1 ELSE q
             IN  Float(IF n < 0 THEN -mag ELSE mag, e + k)

\* float64(x) of a uint64 x
FloatFromUint(x) == RoundFloat(x, 0)

\* 1.0 - s
OneMinus(s) ==
    IF s.e >= 0 THEN RoundFloat(1 - s.m * Pow2(s.e), 0)
    ELSE RoundFloat(Pow2(-s.e) - s.m, s.e)

\* x * y
FloatMul(x, y) == RoundFloat(x.m * y.m, x.e + y.e)

FloatLeqZero(s) == s.m <= 0
FloatLtZero(s) == s.m < 0
FloatGtOne(s) == IF s.e >= 0 THEN s.m * Pow2(s.e) > 1 ELSE s.m > Pow2(-s.e)

\* the integer part of a float, rounded toward zero
Trunc(f) ==
    IF f.e >= 0 THEN f.m * Pow2(f.e)
    ELSE IF f.m >= 0 THEN f.m \div Pow2(-f.e)
    ELSE -((-f.m) \div Pow2(-f.e))

\* uint64(f): the values the conversion can yield.  In range it is the
\* truncation.  Out of range the Go specification leaves the result to the
\* implementation: amd64 wraps a negative value and yields the top bit for a
\* value beyond the range, arm64 saturates.
FloatToUint(f) ==
    IF Trunc(f) < 0 THEN {(MaxUint + 1 + Trunc(f)) % (MaxUint + 1), 0}
    ELSE IF Trunc(f) > MaxUint THEN {Pow2(UintBits - 1), MaxUint}
    ELSE {Trunc(f)}

(***************************************************************************)
(* BaseAdapter.calculateMinAmountOut: the set of values it can return.     *)
(***************************************************************************)
calculateMinAmountOut(amountOut, slippage) ==
    IF FloatLeqZero(slippage) THEN {amountOut}
    ELSE FloatToUint(FloatMul(FloatFromUint(amountOut), OneMinus(slippage)))

\* floor(amountOut * (1 - slippage)) in exact arithmetic, slippage in [0,1]
ExactFloor(amountOut, slippage) ==
    IF slippage.e >= 0 THEN amountOut * (1 - slippage.m * Pow2(slippage.e))
    ELSE (amountOut * (Pow2(-slippage.e) - slippage.m)) \div Pow2(-slippage.e)

(***************************************************************************)
(* Little-endian u64 fields of an instruction payload.                     *)
(***************************************************************************)
RECURSIVE ShiftRight(_, _)
ShiftRight(v, bytes) == IF bytes = 0 THEN v ELSE ShiftRight(v \div 256, bytes - 1)

\* binary.LittleEndian.PutUint64: the 8 bytes of v, least significant first
PutUint64(v) == [i \in 1..8 |-> ShiftRight(v, i - 1) % 256]

\* binary.LittleEndian.Uint64 of 8 bytes
LEUint64(bytes) == DigitsToNat([i \in 1..8 |-> bytes[9 - i]], 256)

(***************************************************************************)
(* Requests (types.SwapRequest, types.LiquidityRequest) as the adapters    *)
(* receive them: behind an interface{} or a pointer.  type is the dynamic  *)
(* type of the value, isNil says that the pointer is nil.                  *)
(***************************************************************************)
SwapRequest(dex, inputMint, outputMint, amountIn, slippage, priorityFee, wallet) ==
    [type |-> "*SwapRequest", isNil |-> FALSE, DEXType |-> dex,
     InputMint |-> inputMint, OutputMint |-> outputMint, AmountIn |-> amountIn,
     Slippage |-> slippage, PriorityFee |-> priorityFee, UserWallet |-> wallet]

LiquidityRequest(dex, operation, tokenA, tokenB, amountA, amountB, slippage, priorityFee, wallet) ==
    [type |-> "*LiquidityRequest", isNil |-> FALSE, DEXType |-> dex,
     Operation |-> operation, TokenAMint |-> tokenA, TokenBMint |-> tokenB,
     AmountA |-> amountA, AmountB |-> amountB, Slippage |-> slippage,
     PriorityFee |-> priorityFee, UserWallet |-> wallet]

\* a nil *types.SwapRequest, a nil *types.LiquidityRequest, and a value of
\* any other type (the untyped nil included)
NilSwapRequest == [type |-> "*SwapRequest", isNil |-> TRUE]
NilLiquidityRequest == [type |-> "*LiquidityRequest", isNil |-> TRUE]
OtherRequest == [type |-> "other", isNil |-> TRUE]

EmptyStr == <<>>

(***************************************************************************)
(* config.DEXConfig and the adapters built from it.                        *)
(***************************************************************************)
DEXConfig(name, programID, routerAddress, enabled, retryCount) ==
    [Name |-> name, ProgramID |-> programID, RouterAddress |-> routerAddress,
     Enabled |-> enabled, RetryCount |-> retryCount]

\* NewBaseAdapter together with New{Raydium,Pumpfun,PumpSwap}Adapter:
\* [err, adapter].  cfg is the configuration the adapter's pointer refers to.
NewRaydiumAdapter(cfg) ==
    IF PublicKeyFromBase58(cfg.ProgramID).err # NoErr
    THEN [err |-> "invalid program ID", adapter |-> Nil]
    ELSE [err |-> NoErr,
          adapter |-> [kind |-> "raydium", name |-> cfg.Name, config |-> cfg,
                       programID |-> PublicKeyFromBase58(cfg.ProgramID).key,
                       routerAddress |-> Nil]]

NewPumpfunAdapter(cfg) ==
    IF PublicKeyFromBase58(cfg.ProgramID).err # NoErr
    THEN [err |-> "invalid program ID", adapter |-> Nil]
    ELSE [err |-> NoErr,
          adapter |-> [kind |-> "pumpfun", name |-> cfg.Name, config |-> cfg,
                       programID |-> PublicKeyFromBase58(cfg.ProgramID).key,
                       routerAddress |-> Nil]]

NewPumpSwapAdapter(cfg) ==
    IF PublicKeyFromBase58(cfg.ProgramID).err # NoErr
    THEN [err |-> "invalid program ID", adapter |-> Nil]
    ELSE IF PublicKeyFromBase58(cfg.RouterAddress).err # NoErr
    THEN [err |-> "invalid router address", adapter |-> Nil]
    ELSE [err |-> NoErr,
          adapter |-> [kind |-> "pumpswap", name |-> cfg.Name, config |-> cfg,
                       programID |-> PublicKeyFromBase58(cfg.ProgramID).key,
                       routerAddress |-> PublicKeyFromBase58(cfg.RouterAddress).key]]

(***************************************************************************)
(* BaseAdapter: validation.  Each operator yields the error returned, or   *)
(* Panic when the call dereferences a nil request.                         *)
(***************************************************************************)
ValidateSwapRequest(req) ==
    IF req.isNil THEN Panic
    ELSE IF req.InputMint = EmptyStr THEN "input mint is required"
    ELSE IF req.OutputMint = EmptyStr THEN "output mint is required"
    ELSE IF req.AmountIn <= 0 THEN "amount must be positive"
    ELSE IF req.UserWallet = EmptyStr THEN "user wallet is required"
    ELSE NoErr

validateLiquidityRequest(req) ==
    IF req.isNil THEN "liquidity request is nil"
    ELSE IF req.Operation # "add" /\ req.Operation # "remove"
    THEN "operation must be 'add' or 'remove'"
    ELSE IF req.TokenAMint = EmptyStr THEN "token A mint is required"
    ELSE IF req.TokenBMint = EmptyStr THEN "token B mint is required"
    ELSE IF req.AmountA = 0 THEN "amount A must be greater than 0"
    ELSE IF req.AmountB = 0 THEN "amount B must be greater than 0"
    ELSE IF req.UserWallet = EmptyStr THEN "user wallet is required"
    ELSE IF FloatLtZero(req.Slippage) \/ FloatGtOne(req.Slippage)
    THEN "slippage must be between 0 and 1"
    ELSE IF PublicKeyFromBase58(req.TokenAMint).err # NoErr
    THEN "invalid token A mint address"
    ELSE IF PublicKeyFromBase58(req.TokenBMint).err # NoErr
    THEN "invalid token B mint address"
    ELSE IF PublicKeyFromBase58(req.UserWallet).err # NoErr
    THEN "invalid user wallet address"
    ELSE NoErr

PumpfunLiquidityUnsupported == "pumpfun does not support liquidity operations"

\* a Pumpfun that validates liquidity requests like the other adapters
ValidateRequest_PumpfunLiquidity(adapter, req) ==
    IF req.type = "*SwapRequest" THEN ValidateSwapRequest(req)
    ELSE IF req.type = "*LiquidityRequest" THEN validateLiquidityRequest(req)
    ELSE "unsupported request type"

\* {Raydium,Pumpfun,PumpSwap}Adapter.ValidateRequest: the type switch on the
\* dynamic type of req; a nil pointer of either request type takes its case
ValidateRequest(adapter, req) ==
    IF req.type = "*SwapRequest" THEN ValidateSwapRequest(req)
    ELSE IF req.type = "*LiquidityRequest"
    THEN IF adapter.kind = "pumpfun" THEN PumpfunLiquidityUnsupported
         ELSE validateLiquidityRequest(req)
    ELSE "unsupported request type"

(***************************************************************************)
(* Instructions (types.InstructionData) and their builders.  A builder     *)
(* yields the set of results [err, instr] the call can have: one result,   *)
(* except where the payload holds an implementation-dependent conversion.  *)
(***************************************************************************)
AccountMeta(key, isSigner, isWritable) ==
    [PublicKey |-> key, IsSigner |-> isSigner, IsWritable |-> isWritable]

\* BaseAdapter.createInstruction
createInstruction(programID, accounts, data) ==
    [ProgramID |-> programID, Accounts |-> accounts, Data |-> data]

Failed(err) == [err |-> err, instr |-> Nil]
Built(instr) == [err |-> NoErr, instr |-> instr]

\* the mint that Pumpfun compares InputMint with: wrapped SOL
NativeMint == KeyFromNat(58)
NativeMintStr == KeyString(NativeMint)

\* RaydiumAdapter.buildSwapInstructionData: opcode 9, amountIn, minAmountOut
RaydiumSwapData(req) ==
    { <<9>> \o PutUint64(req.AmountIn) \o PutUint64(minOut) :
        minOut \in calculateMinAmountOut(req.AmountIn, req.Slippage) }

\* PumpSwapAdapter.buildSwapInstructionData: opcode 1, amountIn, minAmountOut
PumpSwapSwapData(req) ==
    { <<1>> \o PutUint64(req.AmountIn) \o PutUint64(minOut) :
        minOut \in calculateMinAmountOut(req.AmountIn, req.Slippage) }

\* PumpfunAdapter.buildSwapInstructionData: opcode 6 (buy) or 7 (sell),
\* amountIn, minAmountOut, direction
PumpfunSwapData(req) ==
    { <<IF req.InputMint = NativeMintStr THEN 6 ELSE 7>>
        \o PutUint64(req.AmountIn) \o PutUint64(minOut)
        \o <<IF req.InputMint = NativeMintStr THEN 0 ELSE 1>> :
        minOut \in calculateMinAmountOut(req.AmountIn, req.Slippage) }

\* RaydiumAdapter.buildLiquidityInstructionData
RaydiumLiquidityData(req) ==
    <<10, IF req.Operation = "add" THEN 0 ELSE 1>>
        \o PutUint64(req.AmountA) \o PutUint64(req.AmountB)

\* PumpSwapAdapter.buildLiquidityInstructionData
PumpSwapLiquidityData(req) ==
    <<IF req.Operation = "add" THEN 2 ELSE 3, IF req.Operation = "add" THEN 0 ELSE 1>>
        \o PutUint64(req.AmountA) \o PutUint64(req.AmountB)

\* a derivation that takes the mints in the order given
findPoolAddress_Unordered(programID, tokenA, tokenB) ==
    FindProgramAddress(<<SeedLit(<<112, 111, 111, 108>>), SeedOf(tokenA), SeedOf(tokenB)>>, programID)

\* PumpSwapAdapter.findPoolAddress: seeds "pool", then the two mints, the one
\* whose base58 string is smaller first
findPoolAddress(programID, tokenA, tokenB) ==
    IF StrLess(KeyString(tokenA), KeyString(tokenB))
    THEN FindProgramAddress(<<SeedLit(<<112, 111, 111, 108>>), SeedOf(tokenA), SeedOf(tokenB)>>, programID)
    ELSE FindProgramAddress(<<SeedLit(<<112, 111, 111, 108>>), SeedOf(tokenB), SeedOf(tokenA)>>, programID)

\* PumpSwapAdapter.findOrCreatePoolAddress
findOrCreatePoolAddress(programID, tokenA, tokenB) ==
    findPoolAddress(programID, tokenA, tokenB)

\* PumpSwapAdapter.deriveLPMintAddress: seeds "lp-mint", pool
deriveLPMintAddress(programID, poolAddress) ==
    FindProgramAddress(<<SeedLit(<<108, 112, 45, 109, 105, 110, 116>>), SeedOf(poolAddress)>>, programID)

\* PumpfunAdapter.deriveBondingCurveAddress: seeds "bonding-curve", mint
deriveBondingCurveAddress(programID, mint) ==
    FindProgramAddress(<<SeedLit(<<98, 111, 110, 100, 105, 110, 103, 45, 99, 117, 114, 118, 101>>), SeedOf(mint)>>, programID)

\* PumpfunAdapter.deriveBondingCurveTokenAccount
deriveBondingCurveTokenAccount(bondingCurve, mint) ==
    FindAssociatedTokenAddress(bondingCurve, mint)

RaydiumSwapAccounts(adapter, userWallet, inputMint, outputMint) ==
    << AccountMeta(userWallet, TRUE, FALSE),
       AccountMeta(FindAssociatedTokenAddress(userWallet, inputMint), FALSE, TRUE),
       AccountMeta(FindAssociatedTokenAddress(userWallet, outputMint), FALSE, TRUE),
       AccountMeta(inputMint, FALSE, FALSE),
       AccountMeta(outputMint, FALSE, FALSE),
       AccountMeta(TokenProgramID, FALSE, FALSE) >>

PumpfunSwapAccounts(adapter, userWallet, inputMint, outputMint) ==
    LET bondingCurve == deriveBondingCurveAddress(adapter.programID, outputMint)
    IN  << AccountMeta(userWallet, TRUE, FALSE),
           AccountMeta(FindAssociatedTokenAddress(userWallet, inputMint), FALSE, TRUE),
           AccountMeta(FindAssociatedTokenAddress(userWallet, outputMint), FALSE, TRUE),
           AccountMeta(bondingCurve, FALSE, TRUE),
           AccountMeta(deriveBondingCurveTokenAccount(bondingCurve, outputMint), FALSE, TRUE),
           AccountMeta(inputMint, FALSE, FALSE),
           AccountMeta(outputMint, FALSE, TRUE),
           AccountMeta(TokenProgramID, FALSE, FALSE),
           AccountMeta(SystemProgramID, FALSE, FALSE) >>

PumpSwapSwapAccounts(adapter, userWallet, inputMint, outputMint) ==
    LET poolAddress == findPoolAddress(adapter.programID, inputMint, outputMint)
    IN  << AccountMeta(userWallet, TRUE, FALSE),
           AccountMeta(FindAssociatedTokenAddress(userWallet, inputMint), FALSE, TRUE),
           AccountMeta(FindAssociatedTokenAddress(userWallet, outputMint), FALSE, TRUE),
           AccountMeta(poolAddress, FALSE, TRUE),
           AccountMeta(FindAssociatedTokenAddress(poolAddress, inputMint), FALSE, TRUE),
           AccountMeta(FindAssociatedTokenAddress(poolAddress, outputMint), FALSE, TRUE),
           AccountMeta(adapter.routerAddress, FALSE, FALSE),
           AccountMeta(inputMint, FALSE, FALSE),
           AccountMeta(outputMint, FALSE, FALSE),
           AccountMeta(TokenProgramID, FALSE, FALSE) >>

\* {Raydium,Pumpfun,PumpSwap}Adapter.BuildSwapInstruction
BuildSwapInstruction(adapter, req) ==
    IF ValidateSwapRequest(req) # NoErr THEN {Failed(ValidateSwapRequest(req))}
    ELSE IF PublicKeyFromBase58(req.UserWallet).err # NoErr
    THEN {Failed("invalid user wallet")}
    ELSE IF PublicKeyFromBase58(req.InputMint).err # NoErr
    THEN {Failed("invalid input mint")}
    ELSE IF PublicKeyFromBase58(req.OutputMint).err # NoErr
    THEN {Failed("invalid output mint")}
    ELSE LET userWallet == PublicKeyFromBase58(req.UserWallet).key
             inputMint  == PublicKeyFromBase58(req.InputMint).key
             outputMint == PublicKeyFromBase58(req.OutputMint).key
         IN  IF adapter.kind = "raydium"
             THEN { Built(createInstruction(adapter.programID,
                        RaydiumSwapAccounts(adapter, userWallet, inputMint, outputMint), d)) :
                    d \in RaydiumSwapData(req) }
             ELSE IF adapter.kind = "pumpfun"
             THEN { Built(createInstruction(adapter.programID,
                        PumpfunSwapAccounts(adapter, userWallet, inputMint, outputMint), d)) :
                    d \in PumpfunSwapData(req) }
             ELSE { Built(createInstruction(adapter.programID,
                        PumpSwapSwapAccounts(adapter, userWallet, inputMint, outputMint), d)) :
                    d \in PumpSwapSwapData(req) }

RaydiumLiquidityAccounts(adapter, userWallet, tokenAMint, tokenBMint) ==
    << AccountMeta(userWallet, TRUE, FALSE),
       AccountMeta(FindAssociatedTokenAddress(userWallet, tokenAMint), FALSE, TRUE),
       AccountMeta(FindAssociatedTokenAddress(userWallet, tokenBMint), FALSE, TRUE),
       AccountMeta(tokenAMint, FALSE, FALSE),
       AccountMeta(tokenBMint, FALSE, FALSE),
       AccountMeta(TokenProgramID, FALSE, FALSE) >>

PumpSwapLiquidityAccounts(adapter, userWallet, tokenAMint, tokenBMint) ==
    LET poolAddress == findOrCreatePoolAddress(adapter.programID, tokenAMint, tokenBMint)
        lpMint      == deriveLPMintAddress(adapter.programID, poolAddress)
    IN  << AccountMeta(userWallet, TRUE, FALSE),
           AccountMeta(FindAssociatedTokenAddress(userWallet, tokenAMint), FALSE, TRUE),
           AccountMeta(FindAssociatedTokenAddress(userWallet, tokenBMint), FALSE, TRUE),
           AccountMeta(FindAssociatedTokenAddress(userWallet, lpMint), FALSE, TRUE),
           AccountMeta(poolAddress, FALSE, TRUE),
           AccountMeta(lpMint, FALSE, TRUE),
           AccountMeta(tokenAMint, FALSE, FALSE),
           AccountMeta(tokenBMint, FALSE, FALSE),
           AccountMeta(TokenProgramID, FALSE, FALSE) >>

\* a Pumpfun that builds liquidity instructions the way Raydium does
BuildLiquidityInstruction_PumpfunBuilds(adapter, req) ==
    IF validateLiquidityRequest(req) # NoErr THEN {Failed(validateLiquidityRequest(req))}
    ELSE IF PublicKeyFromBase58(req.UserWallet).err # NoErr
    THEN {Failed("invalid user wallet")}
    ELSE {Built(createInstruction(adapter.programID,
              RaydiumLiquidityAccounts(adapter,
                  PublicKeyFromBase58(req.UserWallet).key,
                  PublicKeyFromBase58(req.TokenAMint).key,
                  PublicKeyFromBase58(req.TokenBMint).key),
              RaydiumLiquidityData(req)))}

\* {Raydium,Pumpfun,PumpSwap}Adapter.BuildLiquidityInstruction
BuildLiquidityInstruction(adapter, req) ==
    IF adapter.kind = "pumpfun"
    THEN {Failed("pumpfun does not support traditional liquidity operations")}
    ELSE IF validateLiquidityRequest(req) # NoErr
    THEN {Failed(validateLiquidityRequest(req))}
    ELSE IF PublicKeyFromBase58(req.UserWallet).err # NoErr
    THEN {Failed("invalid user wallet")}
    ELSE IF PublicKeyFromBase58(req.TokenAMint).err # NoErr
    THEN {Failed("invalid token A mint")}
    ELSE IF PublicKeyFromBase58(req.TokenBMint).err # NoErr
    THEN {Failed("invalid token B mint")}
    ELSE LET userWallet == PublicKeyFromBase58(req.UserWallet).key
             tokenAMint == PublicKeyFromBase58(req.TokenAMint).key
             tokenBMint == PublicKeyFromBase58(req.TokenBMint).key
         IN  IF adapter.kind = "raydium"
             THEN {Built(createInstruction(adapter.programID,
                      RaydiumLiquidityAccounts(adapter, userWallet, tokenAMint, tokenBMint),
                      RaydiumLiquidityData(req)))}
             ELSE {Built(createInstruction(adapter.programID,
                      PumpSwapLiquidityAccounts(adapter, userWallet, tokenAMint, tokenBMint),
                      PumpSwapLiquidityData(req)))}

(***************************************************************************)
(* AdapterRegistry: a Go map from names to adapters, as a function whose   *)
(* domain is the set of keys.                                              *)
(***************************************************************************)
NewAdapterRegistry == << >>

MapPut(map, key, value) ==
    [k \in DOMAIN map \cup {key} |-> IF k = key THEN value ELSE map[k]]

\* a Register that keeps the adapter already registered under the name
RegistryRegister_KeepFirst(adapters, name, adapter) ==
    IF name \in DOMAIN adapters THEN adapters ELSE MapPut(adapters, name, adapter)

\* AdapterRegistry.Register: r.adapters[name] = adapter
RegistryRegister(adapters, name, adapter) == MapPut(adapters, name, adapter)

\* AdapterRegistry.Get: [adapter, err]
RegistryGet(adapters, name) ==
    IF name \notin DOMAIN adapters
    THEN [adapter |-> Nil, err |-> "adapter not found"]
    ELSE [adapter |-> adapters[name], err |-> NoErr]

\* the sequences that enumerate a set, each element once
Enumerations(S) ==
    { f \in [1..Cardinality(S) -> S] : \A i, j \in 1..Cardinality(S) : f[i] = f[j] => i = j }

\* AdapterRegistry.List: the keys in the order the map iteration yields them,
\* which Go leaves unspecified
RegistryList(adapters) == Enumerations(DOMAIN adapters)

\* AdapterRegistry.GetAll: the map itself
RegistryGetAll(adapters) == adapters

(***************************************************************************)
(* TransactionService.  The ledger RPC and the ledger SDK are outside the  *)
(* service: what a call into them yields is an input, env, of the          *)
(* operation: env.blockhash is "ok" or "fail"; env.fee is "error", "null"  *)
(* or "ok", and then env.feeValue is the fee returned; env.marshal is "ok" *)
(* or "fail".                                                              *)
(*                                                                         *)
(* build tells how the compiler scopes the variable of a for-range loop:   *)
(* "shared" (one variable for the whole loop, the Go 1.21 the repository   *)
(* names) or "perIteration" (Go 1.22 and later).  A pointer taken to the   *)
(* loop variable refers, once the loop is over, to the last value assigned *)
(* under "shared" and to the iteration's own value under "perIteration".   *)
(***************************************************************************)
\* the fee EncodeSwapTransaction / EncodeLiquidityTransaction fall back to
DefaultFee == 5000

Config(dexes) == [DEXes |-> dexes]

\* what &dexCfg refers to after the loop of NewTransactionService
LoopConfigSeen(dexes, i, build) ==
    IF build = "shared" THEN dexes[Len(dexes)] ELSE dexes[i]

\* the switch of NewTransactionService on dexCfg.Name
NewAdapterByName(dexCfg) ==
    IF dexCfg.Name = "raydium" THEN NewRaydiumAdapter(dexCfg)
    ELSE IF dexCfg.Name = "pumpfun" THEN NewPumpfunAdapter(dexCfg)
    ELSE IF dexCfg.Name = "pumpswap" THEN NewPumpSwapAdapter(dexCfg)
    ELSE [err |-> "no adapter for this name", adapter |-> Nil]

\* a variant of the loop that does not skip disabled entries
RECURSIVE RegisterDEXes_AlsoDisabled(_, _, _, _)
RegisterDEXes_AlsoDisabled(adapters, dexes, i, build) ==
    IF i > Len(dexes) THEN adapters
    ELSE IF NewAdapterByName(dexes[i]).err # NoErr
    THEN RegisterDEXes_AlsoDisabled(adapters, dexes, i + 1, build)
    ELSE RegisterDEXes_AlsoDisabled(
             RegistryRegister(adapters, dexes[i].Name,
                 [NewAdapterByName(dexes[i]).adapter
                    EXCEPT !.config = LoopConfigSeen(dexes, i, build)]),
             dexes, i + 1, build)

\* the loop of NewTransactionService over cfg.DEXes[i..]
RECURSIVE RegisterDEXes(_, _, _, _)
RegisterDEXes(adapters, dexes, i, build) ==
    IF i > Len(dexes) THEN adapters
    ELSE IF ~dexes[i].Enabled \/ NewAdapterByName(dexes[i]).err # NoErr
    THEN RegisterDEXes(adapters, dexes, i + 1, build)
    ELSE RegisterDEXes(
             RegistryRegister(adapters, dexes[i].Name,
                 [NewAdapterByName(dexes[i]).adapter
                    EXCEPT !.config = LoopConfigSeen(dexes, i, build)]),
             dexes, i + 1, build)

\* NewTransactionService: the service's fields
NewTransactionService(cfg, build) ==
    [config |-> cfg,
     adapterRegistry |-> RegisterDEXes(NewAdapterRegistry, cfg.DEXes, 1, build)]

\* TransactionService.GetDEXAdapter
GetDEXAdapter(ts, name) == RegistryGet(ts.adapterRegistry, name)

\* TransactionService.GetSupportedDEXes
GetSupportedDEXes(ts) == RegistryList(ts.adapterRegistry)

\* the loop "for i, acc := range instructionData.Accounts { accounts[i] = &acc }"
\* and solana.NewInstruction: the instruction placed into the transaction
NewInstruction(instructionData, build) ==
    [ProgramID |-> instructionData.ProgramID,
     Accounts  |-> [i \in 1..Len(instructionData.Accounts) |->
                      IF build = "shared"
                      THEN instructionData.Accounts[Len(instructionData.Accounts)]
                      ELSE instructionData.Accounts[i]],
     Data      |-> instructionData.Data]

ComputeBudgetProgramID == KeyFromNat(8)

\* a variant that writes the fee most significant byte first
createPriorityFeeInstruction_BigEndian(priorityFee) ==
    [ProgramID |-> ComputeBudgetProgramID, Accounts |-> << >>,
     Data |-> <<3>> \o [i \in 1..8 |-> PutUint64(priorityFee)[9 - i]]]

\* TransactionService.createPriorityFeeInstruction: opcode 3 and the fee,
\* byte i+1 being byte(priorityFee >> (i*8))
createPriorityFeeInstruction(priorityFee) ==
    [ProgramID |-> ComputeBudgetProgramID, Accounts |-> << >>,
     Data |-> <<3>> \o PutUint64(priorityFee)]

\* TransactionService.buildTransaction: [err, tx, rpc], rpc being the ledger
\* RPC calls made
buildTransaction(instructions, payerAddress, priorityFee, env) ==
    IF PublicKeyFromBase58(payerAddress).err # NoErr
    THEN [err |-> "invalid payer address", tx |-> Nil, rpc |-> << >>]
    ELSE IF env.blockhash = "fail"
    THEN [err |-> "failed to get recent blockhash", tx |-> Nil,
          rpc |-> <<"GetRecentBlockhash">>]
    ELSE [err |-> NoErr,
          tx  |-> [Instructions |-> IF priorityFee > 0
                                    THEN <<createPriorityFeeInstruction(priorityFee)>>
                                             \o instructions
                                    ELSE instructions,
                   RecentBlockhash |-> "blockhash",
                   Payer |-> PublicKeyFromBase58(payerAddress).key],
          rpc |-> <<"GetRecentBlockhash">>]

\* TransactionService.estimateTransactionFee: [err, fee]
estimateTransactionFee(tx, env) ==
    IF env.fee = "error" THEN [err |-> "failed to get fee estimate", fee |-> 0]
    ELSE IF env.fee = "null" THEN [err |-> "fee estimation returned null", fee |-> 0]
    ELSE [err |-> NoErr, fee |-> env.feeValue]

\* an error message built by fmt.Sprintf("<prefix>: %v", cause)
Message(prefix, cause) == [prefix |-> prefix, cause |-> cause]
\* the empty string in a response's Error or Transaction field
NoMessage == Message("", "")
NoTransaction == Nil

\* types.TransactionResponse
FailureResponse(error) ==
    [Success |-> FALSE, Transaction |-> NoTransaction, EstimatedFee |-> 0,
     Error |-> error, RequestID |-> ""]

\* the result of an Encode call: the response, the Go error, the ledger RPC
\* calls made, the adapter's instruction and the transaction built
EncodeResult(resp, rpc, instr, tx) ==
    [resp |-> resp, goErr |-> NoErr, rpc |-> rpc, instr |-> instr, tx |-> tx]

\* a variant in which a fee-estimation failure fails the call
EncodeBuilt_FeeFailureFails(instructionData, req, build, env) ==
    LET instruction == NewInstruction(instructionData, build)
        built == buildTransaction(<<instruction>>, req.UserWallet, req.PriorityFee, env)
        fee   == estimateTransactionFee(built.tx, env)
    IN  IF built.err # NoErr
        THEN EncodeResult(
                 FailureResponse(Message("Failed to build transaction", built.err)),
                 built.rpc, instructionData, Nil)
        ELSE IF fee.err # NoErr
        THEN EncodeResult(
                 FailureResponse(Message("Failed to estimate fee", fee.err)),
                 built.rpc \o <<"GetFeeForMessage">>, instructionData, built.tx)
        ELSE IF env.marshal = "fail"
        THEN EncodeResult(
                 FailureResponse(Message("Failed to serialize transaction", "marshal")),
                 built.rpc \o <<"GetFeeForMessage">>, instructionData, built.tx)
        ELSE EncodeResult(
                 [Success |-> TRUE, Transaction |-> [base64 |-> built.tx],
                  EstimatedFee |-> fee.fee,
                  Error |-> NoMessage, RequestID |-> "uuid"],
                 built.rpc \o <<"GetFeeForMessage">>, instructionData, built.tx)

\* EncodeSwapTransaction / EncodeLiquidityTransaction once the adapter has
\* returned instructionData: the instruction, the transaction, the fee, the
\* serialization and the response
EncodeBuilt(instructionData, req, build, env) ==
    LET instruction == NewInstruction(instructionData, build)
        built == buildTransaction(<<instruction>>, req.UserWallet, req.PriorityFee, env)
        fee   == estimateTransactionFee(built.tx, env)
    IN  IF built.err # NoErr
        THEN EncodeResult(
                 FailureResponse(Message("Failed to build transaction", built.err)),
                 built.rpc, instructionData, Nil)
        ELSE IF env.marshal = "fail"
        THEN EncodeResult(
                 FailureResponse(Message("Failed to serialize transaction", "marshal")),
                 built.rpc \o <<"GetFeeForMessage">>, instructionData, built.tx)
        ELSE EncodeResult(
                 [Success |-> TRUE, Transaction |-> [base64 |-> built.tx],
                  EstimatedFee |-> IF fee.err # NoErr THEN DefaultFee ELSE fee.fee,
                  Error |-> NoMessage, RequestID |-> "uuid"],
                 built.rpc \o <<"GetFeeForMessage">>, instructionData, built.tx)

\* the part of an Encode call before the adapter builds: the registry lookup
\* and ValidateRequest.  Nil when the call goes on to build.
EncodeRejected(ts, req) ==
    IF GetDEXAdapter(ts, req.DEXType).err # NoErr
    THEN EncodeResult(
             FailureResponse(Message("DEX adapter not found", req.DEXType)),
             << >>, Nil, Nil)
    ELSE IF ValidateRequest(GetDEXAdapter(ts, req.DEXType).adapter, req) # NoErr
    THEN EncodeResult(
             FailureResponse(Message("Invalid request", ValidateRequest(GetDEXAdapter(ts, req.DEXType).adapter, req))),
             << >>, Nil, Nil)
    ELSE Nil

\* TransactionService.EncodeSwapTransaction: the results the call can have
EncodeSwapTransaction(ts, req, build, env) ==
    IF EncodeRejected(ts, req) # Nil THEN {EncodeRejected(ts, req)}
    ELSE { IF out.err # NoErr
           THEN EncodeResult(
                    FailureResponse(Message("Failed to build swap instruction", out.err)), << >>, Nil, Nil)
           ELSE EncodeBuilt(out.instr, req, build, env) :
           out \in BuildSwapInstruction(GetDEXAdapter(ts, req.DEXType).adapter, req) }

\* TransactionService.EncodeLiquidityTransaction: the results the call can have
EncodeLiquidityTransaction(ts, req, build, env) ==
    IF EncodeRejected(ts, req) # Nil THEN {EncodeRejected(ts, req)}
    ELSE { IF out.err # NoErr
           THEN EncodeResult(
                    FailureResponse(Message("Failed to build liquidity instruction", out.err)), << >>, Nil, Nil)
           ELSE EncodeBuilt(out.instr, req, build, env) :
           out \in BuildLiquidityInstruction(GetDEXAdapter(ts, req.DEXType).adapter, req) }

(***************************************************************************)
(* The values the operations are run on.                                   *)
(***************************************************************************)
MintA == NativeMint
MintB == KeyFromNat(2)
MintC == KeyFromNat(300)
WalletKey == KeyFromNat(513)

\* a string with a character outside the base58 alphabet
BadStr == <<58>>

MintStrs == {EmptyStr, BadStr, KeyString(MintA), KeyString(MintB)}
WalletStrs == {EmptyStr, BadStr, KeyString(WalletKey)}

SlipNegative == Float(-1, -1)
SlipZero == Float(0, 0)
SlipQuarter == Float(1, -2)
SlipOver == Float(3, -1)

RaydiumConfig(enabled) ==
    DEXConfig("raydium", KeyString(KeyFromNat(1001)), KeyString(KeyFromNat(1011)), enabled, 3)
PumpfunConfig(enabled) ==
    DEXConfig("pumpfun", KeyString(KeyFromNat(1002)), KeyString(KeyFromNat(1012)), enabled, 2)
PumpSwapConfig(enabled) ==
    DEXConfig("pumpswap", KeyString(KeyFromNat(1003)), KeyString(KeyFromNat(1013)), enabled, 1)

TheRaydiumAdapter == NewRaydiumAdapter(RaydiumConfig(TRUE)).adapter
ThePumpfunAdapter == NewPumpfunAdapter(PumpfunConfig(TRUE)).adapter
ThePumpSwapAdapter == NewPumpSwapAdapter(PumpSwapConfig(TRUE)).adapter
TheAdapters == {TheRaydiumAdapter, ThePumpfunAdapter, ThePumpSwapAdapter}

\* the swap requests an adapter is called with
AdapterSwapRequests ==
    { SwapRequest("any", i, o, a, s, 0, w) :
        i \in MintStrs, o \in MintStrs, a \in {0, 1000},
        s \in {SlipNegative, SlipZero, SlipQuarter, SlipOver}, w \in WalletStrs }
    \cup {NilSwapRequest}

\* the liquidity requests an adapter is called with
AdapterLiquidityRequests ==
    { LiquidityRequest("any", op, a, b, amt[1], amt[2], s, 0, w) :
        op \in {"add", "remove", "burn"}, a \in MintStrs, b \in MintStrs,
        amt \in {<<0, 1>>, <<1, 0>>, <<1000, 7>>},
        s \in {SlipQuarter, SlipOver}, w \in WalletStrs }
    \cup {NilLiquidityRequest}

\* the output amounts a DEX may quote for a swap
QuoteValues == {1000, 900}

NoCall == [op |-> "none"]

VARIABLES
    call,        \* the adapter call in progress or just returned, or NoCall
    prev,        \* the pool a PumpSwap instruction built earlier names, or Nil
    adapters,    \* AdapterRegistry.adapters
    regLog,      \* the Register calls made on the registry, oldest first
    regOp,       \* the last operation on the registry and what it returned
    minOutCall,  \* the last calculateMinAmountOut call and its result
    mr,          \* the makeRequest call in progress
    ts,          \* the TransactionService
    build,       \* how the build scopes for-range loop variables
    enc,         \* the last Encode call on the service and its result
    tt,          \* the TestTransaction / SimulateTransaction call in progress
    heap,        \* the config.Config objects in memory, by address
    svc,         \* the address each service's config field holds
    file,        \* the configuration the file at configPath holds
    obs,         \* the last request on a service and what it observed
    mem,         \* the DEXes slice the services share: header and backing arrays
    writer,      \* the goroutine serving a configuration change
    reader       \* the goroutine serving ListDEXes

vars == <<call, prev, adapters, regLog, regOp, minOutCall, mr, ts, build, enc, tt,
          heap, svc, file, obs, mem, writer, reader>>

adapterVars == <<call, prev>>
registryVars == <<adapters, regLog, regOp>>
serviceVars == <<ts, build, enc>>
testVars == <<tt>>
configVars == <<heap, svc, file, obs>>
raceVars == <<mem, writer, reader>>

NoRequest == [pc |-> "idle"]
\* no TestTransaction / SimulateTransaction call is in progress
NoTest == [pc |-> "idle"]

AdapterIdle == call = NoCall /\ prev = Nil
RegistryIdle == adapters = NewAdapterRegistry /\ regLog = << >> /\ regOp = NoCall
MinOutIdle == minOutCall = NoCall
RetryIdle == mr = NoRequest
ServiceIdle == ts = Nil /\ build = "shared" /\ enc = NoCall
TestIdle == tt = NoTest
\* no service has been handed a configuration
ConfigIdle == heap = << >> /\ svc = Nil /\ file = Nil /\ obs = NoCall
\* no goroutine is at work on the shared DEX slice
RaceIdle == mem = Nil /\ writer = NoRequest /\ reader = NoRequest

(***************************************************************************)
(* The adapters: one call at a time, on any adapter with any request.      *)
(***************************************************************************)
AdapterCall(op, adapter, req, err, instr, quotedOut) ==
    [op |-> op, adapter |-> adapter.kind, req |-> req, err |-> err, instr |-> instr,
     quotedOut |-> quotedOut]

ValidateRequestCall ==
    /\ call = NoCall
    /\ \E adapter \in TheAdapters :
       \E req \in AdapterSwapRequests \cup AdapterLiquidityRequests \cup {OtherRequest} :
          call' = AdapterCall("ValidateRequest", adapter, req,
                              ValidateRequest(adapter, req), Nil, 0)
    /\ UNCHANGED <<prev, registryVars, minOutCall, mr, serviceVars, testVars, configVars, raceVars>>

\* quotedOut is what the DEX quotes for the swap when it is built
BuildSwapInstructionCall ==
    /\ call = NoCall
    /\ \E adapter \in TheAdapters, req \in AdapterSwapRequests, q \in QuoteValues :
       \E out \in BuildSwapInstruction(adapter, req) :
          call' = AdapterCall("BuildSwapInstruction", adapter, req, out.err, out.instr, q)
    /\ UNCHANGED <<prev, registryVars, minOutCall, mr, serviceVars, testVars, configVars, raceVars>>

BuildLiquidityInstructionCall ==
    /\ call = NoCall
    /\ \E adapter \in TheAdapters, req \in AdapterLiquidityRequests :
       \E out \in BuildLiquidityInstruction(adapter, req) :
          call' = AdapterCall("BuildLiquidityInstruction", adapter, req, out.err,
                              out.instr, 0)
    /\ UNCHANGED <<prev, registryVars, minOutCall, mr, serviceVars, testVars, configVars, raceVars>>

\* the caller is done with the result; the request is discarded
DiscardCall ==
    /\ call # NoCall
    /\ call' = NoCall
    /\ UNCHANGED <<prev, registryVars, minOutCall, mr, serviceVars, testVars, configVars, raceVars>>

Init ==
    /\ AdapterIdle /\ RegistryIdle /\ MinOutIdle /\ RetryIdle /\ ServiceIdle
    /\ TestIdle /\ RaceIdle /\ ConfigIdle

Next ==
    \/ ValidateRequestCall
    \/ BuildSwapInstructionCall
    \/ BuildLiquidityInstructionCall
    \/ DiscardCall

Spec == Init /\ [][Next]_vars

(***************************************************************************)
(* Properties of the adapters, stated for Spec.                            *)
(***************************************************************************)
\* a swap request with a missing, zero, out-of-range or malformed field
SwapRequestMalformed(req) ==
    \/ req.InputMint = EmptyStr
    \/ req.OutputMint = EmptyStr
    \/ req.AmountIn = 0
    \/ req.UserWallet = EmptyStr
    \/ FloatLtZero(req.Slippage)
    \/ FloatGtOne(req.Slippage)
    \/ PublicKeyFromBase58(req.InputMint).err # NoErr
    \/ PublicKeyFromBase58(req.OutputMint).err # NoErr
    \/ PublicKeyFromBase58(req.UserWallet).err # NoErr

ValidatedSwap ==
    /\ call.op = "ValidateRequest"
    /\ call.req.type = "*SwapRequest"
    /\ ~call.req.isNil

\* C1: for every adapter and every swap request, ValidateRequest returns a
\* non-nil error when a mint or the wallet is empty, amountIn is 0, the
\* slippage is outside [0,1], or a mint or the wallet is not a well-formed
\* public-key string.
C1_ValidateRejectsMalformedSwap ==
    (ValidatedSwap /\ SwapRequestMalformed(call.req)) => call.err # NoErr

\* C2: ValidateRequest called with a nil swap request returns a non-nil
\* error as a value; it does not panic.
C2_NilSwapRequestIsRejected ==
    (call.op = "ValidateRequest" /\ call.req = NilSwapRequest)
        => (call.err # NoErr /\ call.err # Panic)

PumpfunLiquidityCall ==
    /\ call.op # "none"
    /\ call.adapter = "pumpfun"
    /\ call.req.type = "*LiquidityRequest"

\* C3: for the Pumpfun adapter and every liquidity request, whatever its
\* fields, BuildLiquidityInstruction returns an error and no instruction, and
\* ValidateRequest returns the error "pumpfun does not support liquidity
\* operations".
C3_PumpfunRefusesLiquidity ==
    PumpfunLiquidityCall =>
        /\ call.op = "BuildLiquidityInstruction" =>
              (call.err # NoErr /\ call.err # Panic /\ call.instr = Nil)
        /\ call.op = "ValidateRequest" => call.err = PumpfunLiquidityUnsupported

\* a liquidity request that passes the shared validation is refused by the
\* Pumpfun builder
C3_Witness ==
    /\ PumpfunLiquidityCall
    /\ call.op = "BuildLiquidityInstruction"
    /\ validateLiquidityRequest(call.req) = NoErr
    /\ call.err # NoErr

RaydiumValidSwapBuilt ==
    /\ call.op = "BuildSwapInstruction"
    /\ call.adapter = "raydium"
    /\ ~call.req.isNil
    /\ ~SwapRequestMalformed(call.req)

\* C7: for every valid Raydium swap request BuildSwapInstruction returns an
\* instruction with 6 accounts, the first the payer wallet marked signer, and
\* a 17-byte payload: amountIn as little-endian u64 at offsets 1..9, and
\* floor(quotedOut * (1 - slippage)) as little-endian u64 at offsets 9..17,
\* quotedOut being the output amount quoted for the swap.
C7_RaydiumSwapInstruction ==
    RaydiumValidSwapBuilt =>
        /\ call.err = NoErr
        /\ Len(call.instr.Accounts) = 6
        /\ call.instr.Accounts[1].PublicKey = PublicKeyFromBase58(call.req.UserWallet).key
        /\ call.instr.Accounts[1].IsSigner
        /\ Len(call.instr.Data) = 17
        /\ LEUint64(SubSeq(call.instr.Data, 2, 9)) = call.req.AmountIn
        /\ LEUint64(SubSeq(call.instr.Data, 10, 17))
              = ExactFloor(call.quotedOut, call.req.Slippage)

(***************************************************************************)
(* PumpSwap pools: instructions are built one after another for any pairs  *)
(* of mints, and the pool that the last instruction built names is kept to *)
(* compare the next one with.                                              *)
(***************************************************************************)
PoolMintStrs == {KeyString(MintA), KeyString(MintB), KeyString(MintC)}

PoolSwapRequests ==
    { SwapRequest("pumpswap", i, o, 1000, s, 0, KeyString(WalletKey)) :
        i \in PoolMintStrs \cup {BadStr}, o \in PoolMintStrs, s \in {SlipZero, SlipQuarter} }

PoolLiquidityRequests ==
    { LiquidityRequest("pumpswap", op, a, b, 1000, amountB, SlipQuarter, 0,
                       KeyString(WalletKey)) :
        op \in {"add", "remove"}, a \in PoolMintStrs \cup {BadStr}, b \in PoolMintStrs,
        amountB \in {0, 7} }

\* the two mints of a built call, in the order the request gives them
CallMints(c) ==
    IF c.op = "BuildSwapInstruction" THEN <<c.req.InputMint, c.req.OutputMint>>
    ELSE <<c.req.TokenAMint, c.req.TokenBMint>>

\* the pool account and the LP mint account a PumpSwap instruction names
PoolOf(c) ==
    IF c.op = "BuildSwapInstruction" THEN c.instr.Accounts[4].PublicKey
    ELSE c.instr.Accounts[5].PublicKey
LPMintOf(c) ==
    IF c.op = "BuildSwapInstruction" THEN Nil ELSE c.instr.Accounts[6].PublicKey

PoolSwapBuild ==
    /\ call = NoCall
    /\ \E req \in PoolSwapRequests :
       \E out \in BuildSwapInstruction(ThePumpSwapAdapter, req) :
          call' = AdapterCall("BuildSwapInstruction", ThePumpSwapAdapter, req, out.err,
                              out.instr, 0)
    /\ UNCHANGED <<prev, registryVars, minOutCall, mr, serviceVars, testVars, configVars, raceVars>>

PoolLiquidityBuild ==
    /\ call = NoCall
    /\ \E req \in PoolLiquidityRequests :
       \E out \in BuildLiquidityInstruction(ThePumpSwapAdapter, req) :
          call' = AdapterCall("BuildLiquidityInstruction", ThePumpSwapAdapter, req,
                              out.err, out.instr, 0)
    /\ UNCHANGED <<prev, registryVars, minOutCall, mr, serviceVars, testVars, configVars, raceVars>>

\* the caller keeps what a built instruction names; a failed call leaves
\* what was kept
PoolKeep ==
    /\ call # NoCall
    /\ prev' = IF call.err = NoErr
               THEN [op |-> call.op, mints |-> CallMints(call), pool |-> PoolOf(call),
                     lpMint |-> LPMintOf(call)]
               ELSE prev
    /\ call' = NoCall
    /\ UNCHANGED <<registryVars, minOutCall, mr, serviceVars, testVars, configVars, raceVars>>

NextPool ==
    \/ PoolSwapBuild
    \/ PoolLiquidityBuild
    \/ PoolKeep

SpecPool == Init /\ [][NextPool]_vars

\* the instruction just built is for the mints of the one kept, reversed
ReversedPair ==
    /\ call # NoCall
    /\ call.err = NoErr
    /\ prev # Nil
    /\ CallMints(call) = <<prev.mints[2], prev.mints[1]>>

\* C8: PumpSwap pool derivation is symmetric: an instruction for (A,B) and
\* one for (B,A) name the same pool account, be they swaps or liquidity
\* operations, and two liquidity instructions also name the same LP mint.
C8_PoolIsSymmetric ==
    ReversedPair =>
        /\ PoolOf(call) = prev.pool
        /\ (call.op = "BuildLiquidityInstruction" /\ prev.op = "BuildLiquidityInstruction")
              => LPMintOf(call) = prev.lpMint

\* liquidity instructions for (A,B) and (B,A), A # B
C8_Witness ==
    /\ ReversedPair
    /\ call.op = "BuildLiquidityInstruction"
    /\ prev.op = "BuildLiquidityInstruction"
    /\ prev.mints[1] # prev.mints[2]
    /\ PoolOf(call) = findPoolAddress(ThePumpSwapAdapter.programID, MintA, MintB)

(***************************************************************************)
(* The adapter registry on its own: Register, Get, List and GetAll in any  *)
(* order.  regLog records the Register calls.                              *)
(***************************************************************************)
RegistryNames == {"raydium", "pumpfun", "pumpswap"}
\* adapter instances: distinct pointers
AdapterInstances == {[instance |-> "first"], [instance |-> "second"]}

RegisterCall ==
    /\ Len(regLog) < MaxRegister
    /\ \E name \in RegistryNames, adapter \in AdapterInstances :
          /\ adapters' = RegistryRegister(adapters, name, adapter)
          /\ regLog' = Append(regLog, [name |-> name, adapter |-> adapter])
          /\ regOp' = [op |-> "Register", name |-> name]
    /\ UNCHANGED <<adapterVars, minOutCall, mr, serviceVars, testVars, configVars, raceVars>>

GetCall ==
    /\ \E name \in RegistryNames \cup {"nonexistent"} :
          regOp' = [op |-> "Get", name |-> name, result |-> RegistryGet(adapters, name)]
    /\ UNCHANGED <<adapters, regLog, adapterVars, minOutCall, mr, serviceVars, testVars, configVars, raceVars>>

ListCall ==
    /\ \E names \in RegistryList(adapters) :
          regOp' = [op |-> "List", names |-> names]
    /\ UNCHANGED <<adapters, regLog, adapterVars, minOutCall, mr, serviceVars, testVars, configVars, raceVars>>

GetAllCall ==
    /\ regOp' = [op |-> "GetAll", all |-> RegistryGetAll(adapters)]
    /\ UNCHANGED <<adapters, regLog, adapterVars, minOutCall, mr, serviceVars, testVars, configVars, raceVars>>

NextRegistry ==
    \/ RegisterCall
    \/ GetCall
    \/ ListCall
    \/ GetAllCall

SpecRegistry == Init /\ [][NextRegistry]_vars

\* the names Register was called with, and the adapter of the last such call
RegisteredNames == { regLog[i].name : i \in DOMAIN regLog }
LastRegistered(name) ==
    LET calls == { i \in DOMAIN regLog : regLog[i].name = name }
    IN  regLog[CHOOSE i \in calls : \A j \in calls : j <= i].adapter

\* C5: after any sequence of Register calls, Get(name) returns without error
\* the adapter most recently registered under name if there is one, and an
\* error and no adapter otherwise; List() holds exactly the registered names,
\* each once; GetAll() maps exactly those names to those adapters.
C5_RegistryContract ==
    /\ regOp.op = "Get" =>
          IF regOp.name \in RegisteredNames
          THEN regOp.result = [adapter |-> LastRegistered(regOp.name), err |-> NoErr]
          ELSE regOp.result.err # NoErr /\ regOp.result.adapter = Nil
    /\ regOp.op = "List" =>
          /\ Len(regOp.names) = Cardinality(RegisteredNames)
          /\ { regOp.names[i] : i \in DOMAIN regOp.names } = RegisteredNames
    /\ regOp.op = "GetAll" =>
          /\ DOMAIN regOp.all = RegisteredNames
          /\ \A name \in RegisteredNames : regOp.all[name] = LastRegistered(name)

\* Get of a name registered twice, with two different adapters
C5_Witness ==
    /\ regOp.op = "Get"
    /\ \E i, j \in DOMAIN regLog :
          /\ i < j
          /\ regLog[i].name = regOp.name
          /\ regLog[j].name = regOp.name
          /\ regLog[i].adapter # regLog[j].adapter
          /\ regOp.result.adapter = regLog[j].adapter

(***************************************************************************)
(* calculateMinAmountOut on its own, over amounts up to the largest uint   *)
(* and slippages from far below the float precision up to beyond 1.        *)
(***************************************************************************)
AmountValues == {0, 1, 5, 10, 100, 1000, Pow2(MantBits) + 3, MaxUint}

SlippageValues ==
    { Float(m, -e) : m \in {0, 1, 3, 5, Pow2(MantBits) - 1},
                     e \in {0, 1, 2, 4, MantBits, MantBits + 1, MantBits + 3} }
    \cup {SlipNegative}

calculateMinAmountOutCall ==
    /\ \E amountOut \in AmountValues, slippage \in SlippageValues :
       \E result \in calculateMinAmountOut(amountOut, slippage) :
          minOutCall' = [op |-> "calculateMinAmountOut", amountOut |-> amountOut,
                         slippage |-> slippage, result |-> result]
    /\ UNCHANGED <<adapterVars, registryVars, mr, serviceVars, testVars, configVars, raceVars>>

NextMinOut ==
    \/ calculateMinAmountOutCall

SpecMinOut == Init /\ [][NextMinOut]_vars

\* C6: for every amountOut and every slippage in [0,1] the result is
\* floor(amountOut * (1 - slippage)) and at most amountOut; for a slippage
\* of 0 or less it is amountOut.
C6_MinAmountOutIsFloor ==
    minOutCall.op = "calculateMinAmountOut" =>
        /\ (~FloatLtZero(minOutCall.slippage) /\ ~FloatGtOne(minOutCall.slippage)) =>
              /\ minOutCall.result = ExactFloor(minOutCall.amountOut, minOutCall.slippage)
              /\ minOutCall.result <= minOutCall.amountOut
        /\ FloatLeqZero(minOutCall.slippage) => minOutCall.result = minOutCall.amountOut

(***************************************************************************)
(* BaseAdapter.makeRequest, step by step, under GetQuote (which sends a    *)
(* request body) and GetPools (which passes a nil body).  One call at a    *)
(* time; the URL is well formed and the body marshals.                     *)
(*                                                                         *)
(* An attempt's outcome is 0 for a transport failure (client.Do returns an *)
(* error and no response) or the status of the response.                   *)
(***************************************************************************)
TransportFailure == 0
AttemptOutcomes == {TransportFailure, 200, 404, 500, 503}

\* lines 467-491: up to the retry loop.  With a nil body, reqBody is a nil
\* *bytes.Reader, which http.NewRequestWithContext receives as a non-nil
\* io.Reader and dereferences.
makeRequestBegin ==
    /\ mr.pc \in {"idle", "done"}
    /\ \E caller \in {"GetQuote", "GetPools"}, retryCount \in 0..MaxRetry :
          mr' = [pc |-> IF caller = "GetQuote" THEN "loop" ELSE "panicked",
                 caller |-> caller, body |-> (caller = "GetQuote"),
                 retryCount |-> retryCount, i |-> 0, outcomes |-> << >>,
                 sleeps |-> << >>, errSet |-> FALSE, resp |-> 0,
                 ret |-> IF caller = "GetQuote" THEN NoErr ELSE Panic]
    /\ UNCHANGED <<adapterVars, registryVars, minOutCall, serviceVars, testVars, configVars, raceVars>>

\* a variant of the loop that sleeps after every failed attempt
backoff_AfterEveryFailure(i, retryCount) == <<i + 1>>

\* lines 503-505: the sleeps, in seconds, at the end of iteration i, which is
\* reached only when the attempt did not break out of the loop
backoff(i, retryCount) == IF i < retryCount - 1 THEN <<i + 1>> ELSE << >>

\* lines 495-505: one iteration of the loop
makeRequestAttempt ==
    /\ mr.pc = "loop"
    /\ mr.i < mr.retryCount
    /\ \E outcome \in AttemptOutcomes :
          mr' = [mr EXCEPT
                   !.outcomes = Append(@, outcome),
                   !.errSet = (outcome = TransportFailure),
                   !.resp = outcome,
                   !.pc = IF outcome # TransportFailure /\ outcome < 500
                          THEN "after" ELSE "loop",
                   !.sleeps = IF outcome = TransportFailure \/ outcome >= 500
                              THEN @ \o backoff(mr.i, mr.retryCount) ELSE @,
                   !.i = IF outcome # TransportFailure /\ outcome < 500 THEN @ ELSE @ + 1]
    /\ UNCHANGED <<adapterVars, registryVars, minOutCall, serviceVars, testVars, configVars, raceVars>>

\* line 495: the loop condition fails
makeRequestLoopEnd ==
    /\ mr.pc = "loop"
    /\ mr.i >= mr.retryCount
    /\ mr' = [mr EXCEPT !.pc = "after"]
    /\ UNCHANGED <<adapterVars, registryVars, minOutCall, serviceVars, testVars, configVars, raceVars>>

\* lines 508-523: after the loop.  resp = 0 is the nil response, on which
\* "defer resp.Body.Close()" panics.
makeRequestFinish ==
    /\ mr.pc = "after"
    /\ \E decoded \in BOOLEAN :
          mr' = IF mr.errSet
                THEN [mr EXCEPT !.pc = "returned", !.ret = "request failed after retries"]
                ELSE IF mr.resp = 0
                THEN [mr EXCEPT !.pc = "panicked", !.ret = Panic]
                ELSE IF mr.resp >= 400
                THEN [mr EXCEPT !.pc = "returned", !.ret = "request failed with status"]
                ELSE IF ~decoded
                THEN [mr EXCEPT !.pc = "returned", !.ret = "failed to decode response"]
                ELSE [mr EXCEPT !.pc = "returned", !.ret = NoErr]
    /\ UNCHANGED <<adapterVars, registryVars, minOutCall, serviceVars, testVars, configVars, raceVars>>

\* GetQuote / GetPools after makeRequest: the error is wrapped, a panic
\* unwinds through the caller, and a decoded response yields a value only if
\* it says success
CallerReturn ==
    /\ mr.pc \in {"returned", "panicked"}
    /\ \E success \in BOOLEAN :
          mr' = [pc |-> "done", caller |-> mr.caller, body |-> mr.body,
                 retryCount |-> mr.retryCount, outcomes |-> mr.outcomes,
                 sleeps |-> mr.sleeps,
                 out |-> IF mr.ret = Panic THEN [err |-> Panic, value |-> Nil]
                         ELSE IF mr.ret # NoErr
                         THEN [err |-> "failed to get", value |-> Nil]
                         ELSE IF ~success
                         THEN [err |-> "request failed", value |-> Nil]
                         ELSE [err |-> NoErr, value |-> [from |-> mr.caller]]]
    /\ UNCHANGED <<adapterVars, registryVars, minOutCall, serviceVars, testVars, configVars, raceVars>>

NextRetry ==
    \/ makeRequestBegin
    \/ makeRequestAttempt
    \/ makeRequestLoopEnd
    \/ makeRequestFinish
    \/ CallerReturn

SpecRetry == Init /\ [][NextRetry]_vars

\* an outcome after which the loop goes on
Retryable(outcome) == outcome = TransportFailure \/ outcome >= 500

\* C9: for every retryCount >= 0 one makeRequest call makes at least one
\* attempt and at most 1 + retryCount attempts, each attempt but the last
\* having ended in a transport failure or a status >= 500.
C9_AttemptsOfOneCall ==
    /\ mr.pc \in {"loop", "after"} =>
          /\ Len(mr.outcomes) <= 1 + mr.retryCount
          /\ \A k \in 1..(Len(mr.outcomes) - 1) : Retryable(mr.outcomes[k])
    /\ mr.pc = "after" => Len(mr.outcomes) >= 1

\* C10: for every retryCount >= 0, when no attempt yields a status below
\* 500, makeRequest returns a non-nil error and its caller returns an error
\* and no value; the call does not panic.  Stated for the calls that send a
\* body.
C10_ExhaustedRetriesAreAnError ==
    (/\ mr.pc = "done"
     /\ mr.body
     /\ \A k \in DOMAIN mr.outcomes : Retryable(mr.outcomes[k]))
        => (mr.out.err # NoErr /\ mr.out.err # Panic /\ mr.out.value = Nil)

(***************************************************************************)
(* The transaction service: built once from a configuration, then asked to *)
(* encode one request after another.                                       *)
(***************************************************************************)
\* the three DEXes, each enabled or not, and a configuration whose pumpfun
\* entry has a malformed program id
ServiceConfigs ==
    { Config(<<RaydiumConfig(r), PumpfunConfig(f), PumpSwapConfig(s)>>) :
        r \in BOOLEAN, f \in BOOLEAN, s \in BOOLEAN }
    \cup { Config(<<PumpSwapConfig(TRUE),
                    DEXConfig("pumpfun", BadStr, EmptyStr, TRUE, 2),
                    RaydiumConfig(TRUE)>>) }

Builds == {"shared", "perIteration"}

\* what the ledger RPC and the serialization yield during one call
Envs ==
    { [blockhash |-> b, fee |-> f[1], feeValue |-> f[2], marshal |-> m] :
        b \in {"ok", "fail"},
        f \in {<<"error", 0>>, <<"null", 0>>, <<"ok", 0>>, <<"ok", 7>>, <<"ok", DefaultFee>>},
        m \in {"ok", "fail"} }

ServiceDEXTypes == {"raydium", "pumpfun", "pumpswap", "invalid-dex"}

ServiceSwapRequests ==
    { SwapRequest(d, i, o, a, s, f, w) :
        d \in ServiceDEXTypes, i \in {EmptyStr, BadStr, KeyString(MintA)},
        o \in {BadStr, KeyString(MintB)}, a \in {0, 1000},
        s \in {SlipQuarter, SlipOver}, f \in {0, 5}, w \in WalletStrs }

ServiceLiquidityRequests ==
    { LiquidityRequest(d, op, a, KeyString(MintB), amt[1], amt[2], s, f, w) :
        d \in ServiceDEXTypes, op \in {"add", "remove", "burn"},
        a \in {EmptyStr, BadStr, KeyString(MintA)}, amt \in {<<0, 1>>, <<1000, 7>>},
        s \in {SlipQuarter, SlipOver}, f \in {0, 5}, w \in WalletStrs }

\* a call that is rejected before the adapter builds meets no environment
EnvsMet(req) == IF EncodeRejected(ts, req) # Nil THEN {Nil} ELSE Envs

EncodeCall(op, req, env, result) ==
    [op |-> op, req |-> req, result |-> result,
     env |-> IF result.rpc = << >> THEN Nil ELSE env]

EncodeSwapTransactionCall ==
    /\ enc = NoCall
    /\ \E req \in ServiceSwapRequests :
       \E env \in EnvsMet(req) :
       \E result \in EncodeSwapTransaction(ts, req, build, env) :
          enc' = EncodeCall("EncodeSwapTransaction", req, env, result)
    /\ UNCHANGED <<ts, build, adapterVars, registryVars, minOutCall, mr, testVars, configVars, raceVars>>

EncodeLiquidityTransactionCall ==
    /\ enc = NoCall
    /\ \E req \in ServiceLiquidityRequests :
       \E env \in EnvsMet(req) :
       \E result \in EncodeLiquidityTransaction(ts, req, build, env) :
          enc' = EncodeCall("EncodeLiquidityTransaction", req, env, result)
    /\ UNCHANGED <<ts, build, adapterVars, registryVars, minOutCall, mr, testVars, configVars, raceVars>>

\* TransactionService.GetDEXAdapter, as DEXService calls it
GetDEXAdapterCall ==
    /\ enc = NoCall
    /\ \E name \in ServiceDEXTypes :
          enc' = [op |-> "GetDEXAdapter", name |-> name, result |-> GetDEXAdapter(ts, name)]
    /\ UNCHANGED <<ts, build, adapterVars, registryVars, minOutCall, mr, testVars, configVars, raceVars>>

\* the handler has written the response
ResponseWritten ==
    /\ enc # NoCall
    /\ enc' = NoCall
    /\ UNCHANGED <<ts, build, adapterVars, registryVars, minOutCall, mr, testVars, configVars, raceVars>>

InitService ==
    /\ AdapterIdle /\ RegistryIdle /\ MinOutIdle /\ RetryIdle /\ TestIdle /\ RaceIdle
    /\ ConfigIdle
    /\ build \in Builds
    /\ \E cfg \in ServiceConfigs : ts = NewTransactionService(cfg, build)
    /\ enc = NoCall

NextService ==
    \/ EncodeSwapTransactionCall
    \/ EncodeLiquidityTransactionCall
    \/ GetDEXAdapterCall
    \/ ResponseWritten

SpecService == InitService /\ [][NextService]_vars

PumpfunLiquidityEncoded ==
    /\ enc.op = "EncodeLiquidityTransaction"
    /\ enc.req.DEXType = "pumpfun"
    /\ enc.req.Operation \in {"add", "remove"}

\* C4: EncodeLiquidityTransaction with dex type pumpfun, operation add or
\* remove and any other fields returns success=false and a nil Go error,
\* produces no instruction and no transaction and makes no ledger RPC call;
\* where the pumpfun adapter is registered the error is "Invalid request:
\* pumpfun does not support liquidity operations".
C4_PumpfunLiquidityIsRefused ==
    PumpfunLiquidityEncoded =>
        /\ enc.result.resp.Success = FALSE
        /\ enc.result.resp.Transaction = NoTransaction
        /\ enc.result.goErr = NoErr
        /\ enc.result.instr = Nil
        /\ enc.result.tx = Nil
        /\ enc.result.rpc = << >>
        /\ "pumpfun" \in DOMAIN ts.adapterRegistry =>
              enc.result.resp.Error = Message("Invalid request", PumpfunLiquidityUnsupported)

\* a remove request that the shared validation accepts, refused by the
\* registered pumpfun adapter
C4_Witness ==
    /\ PumpfunLiquidityEncoded
    /\ "pumpfun" \in DOMAIN ts.adapterRegistry
    /\ enc.req.Operation = "remove"
    /\ validateLiquidityRequest(enc.req) = NoErr
    /\ ~enc.result.resp.Success

\* an Encode call that built its transaction and asked the ledger for the fee
EncodeReachedFee ==
    /\ enc.op \in {"EncodeSwapTransaction", "EncodeLiquidityTransaction"}
    /\ enc.result.rpc = <<"GetRecentBlockhash", "GetFeeForMessage">>

FeeEstimateFailed == EncodeReachedFee /\ enc.env.fee \in {"error", "null"}

\* C11: when the transaction is built and the fee-for-message call fails or
\* returns no value, EncodeSwapTransaction and EncodeLiquidityTransaction
\* answer as they would have without the failure: where the transaction
\* serializes, success=true with the serialized transaction and the default
\* fee 5000; the only failure left is the serialization's own, and no
\* response names the fee estimation as its error.
C11_FeeFailureFallsBackToDefault ==
    FeeEstimateFailed =>
        /\ enc.result.goErr = NoErr
        /\ enc.result.resp.Success <=> enc.env.marshal = "ok"
        /\ enc.result.resp.Success =>
              /\ enc.result.resp.Transaction = [base64 |-> enc.result.tx]
              /\ enc.result.tx # Nil
              /\ enc.result.resp.EstimatedFee = DefaultFee
              /\ enc.result.resp.Error = NoMessage
        /\ ~enc.result.resp.Success =>
              enc.result.resp.Error = Message("Failed to serialize transaction", "marshal")

\* a liquidity call answered with the default fee after the fee call
\* returned no value
C11_Witness ==
    /\ FeeEstimateFailed
    /\ enc.op = "EncodeLiquidityTransaction"
    /\ enc.env.fee = "null"
    /\ enc.result.resp.Success
    /\ enc.result.resp.EstimatedFee = DefaultFee

EncodeAnswered ==
    enc.op \in {"EncodeSwapTransaction", "EncodeLiquidityTransaction"}

\* C12: every response of EncodeSwapTransaction or EncodeLiquidityTransaction
\* with success=true carries a non-empty transaction, a non-empty request ID
\* and an estimated fee greater than 0, whatever the fee RPC returned; every
\* response with success=false carries a non-empty error message; in both
\* cases the Go error is nil.
C12_ResponseShape ==
    EncodeAnswered =>
        /\ enc.result.goErr = NoErr
        /\ enc.result.resp.Success =>
              /\ enc.result.resp.Transaction # NoTransaction
              /\ enc.result.resp.RequestID # ""
              /\ enc.result.resp.EstimatedFee > 0
        /\ ~enc.result.resp.Success => enc.result.resp.Error # NoMessage

(***************************************************************************)
(* TestTransaction / SimulateTransaction: decode, deserialize, parse the   *)
(* key, sign, then simulate or send.                                       *)
(*  - the request's transaction string is [text |-> t] when it is not      *)
(*    base64 and [base64 |-> data] when it is the base64 of data;          *)
(*  - a transaction is [Signers |-> keys], the account keys the message    *)
(*    header declares as required signers, the fee payer first;            *)
(*  - a solana.PrivateKey is 2 * KeyLen bytes, the seed followed by the    *)
(*    public key (ed25519.PrivateKey; 64 bytes in solana-go);              *)
(*  - a pointer is Nil or [val |-> v].                                     *)
(***************************************************************************)
\* types.TransactionTestRequest
TransactionTestRequest(transaction, simulateOnly, privateKey) ==
    [Transaction |-> transaction, SimulateOnly |-> simulateOnly, PrivateKey |-> privateKey]

\* types.TransactionTestResponse
TransactionTestResponse(success, signature, logs, error, gasUsed) ==
    [Success |-> success, Signature |-> signature, Logs |-> logs, Error |-> error,
     GasUsed |-> gasUsed]

\* a variant of the failure response that carries no message
TestFailure_Silent(prefix, cause, logs) ==
    TransactionTestResponse(FALSE, "", logs, NoMessage, 0)

\* a failure response: fmt.Sprintf("<prefix>: %v", cause) and the logs, if any
TestFailure(prefix, cause, logs) ==
    TransactionTestResponse(FALSE, "", logs, Message(prefix, cause), 0)

\* base64.StdEncoding.DecodeString: [err, data]
DecodeString(str) ==
    IF "base64" \in DOMAIN str THEN [err |-> NoErr, data |-> str.base64]
    ELSE [err |-> "illegal base64 data at input byte 7", data |-> Nil]

\* bin.NewBorshDecoder(txData).Decode(&tx): [err, tx]
BorshDecode(txData) ==
    IF "Signers" \in DOMAIN txData THEN [err |-> NoErr, tx |-> txData]
    ELSE [err |-> "unexpected EOF", tx |-> Nil]

\* solana.PrivateKeyFromBase58: [err, key]
PrivateKeyFromBase58(str) ==
    IF ~Base58Valid(str)
    THEN [err |-> "invalid base58 digit", key |-> Nil]
    ELSE IF Len(Base58Decode(str)) # 2 * KeyLen
    THEN [err |-> "invalid private key size", key |-> Nil]
    ELSE [err |-> NoErr, key |-> Base58Decode(str)]

\* solana.PrivateKey.PublicKey: the second half of the key
PrivateKeyPublicKey(privateKey) == [raw |-> SubSeq(privateKey, KeyLen + 1, 2 * KeyLen)]

\* the getter TestTransaction hands to tx.Sign: the private key for its own
\* public key, nil for any other
SignGetter(privateKey, key) ==
    IF key = PrivateKeyPublicKey(privateKey) THEN [val |-> privateKey] ELSE Nil

\* a variant of Sign that leaves unsigned the signers it has no key for
Sign_SkipsMissingKeys(tx, privateKey) ==
    [err |-> NoErr,
     tx  |-> [Signers |-> tx.Signers,
              Signatures |-> [i \in 1..Len(tx.Signers) |->
                                [by |-> SignGetter(privateKey, tx.Signers[i])]]]]

\* solana.Transaction.Sign: every required signer is looked up with the
\* getter, in order; the first one without a key fails the call
Sign(tx, privateKey) ==
    IF \E i \in 1..Len(tx.Signers) : SignGetter(privateKey, tx.Signers[i]) = Nil
    THEN [err |-> "signer key not found", tx |-> tx]
    ELSE [err |-> NoErr,
          tx  |-> [Signers |-> tx.Signers,
                   Signatures |-> [i \in 1..Len(tx.Signers) |->
                                     [by |-> SignGetter(privateKey, tx.Signers[i]).val]]]]

\* what a call that dereferences a nil pointer leaves instead of a response
Crashed == [panic |-> Panic]

\* TransactionService.simulateTransaction once the RPC call returned
\* simResult: the response, or Crashed
simulateTransaction(simResult) ==
    IF simResult.err # NoErr
    THEN TestFailure("Simulation failed", simResult.err, << >>)
    ELSE IF simResult.Value.Err # NoErr
    THEN TestFailure("Simulation error", simResult.Value.Err, simResult.Value.Logs)
    ELSE IF simResult.Value.UnitsConsumed = Nil THEN Crashed
    ELSE TransactionTestResponse(TRUE, "", simResult.Value.Logs, NoMessage,
                                 simResult.Value.UnitsConsumed.val)

\* TransactionService.sendTransaction once SendTransaction returned sent and
\* GetTransaction returned got: the response, or Crashed
sendTransaction(sent, got) ==
    IF got.err = NoErr /\ got.txDetails # Nil
    THEN IF got.txDetails.Meta = Nil THEN Crashed
         ELSE TransactionTestResponse(TRUE, sent.signature,
                                      got.txDetails.Meta.LogMessages, NoMessage, 0)
    ELSE TransactionTestResponse(TRUE, sent.signature, << >>, NoMessage, 0)

\* the keys of the two wallets of the model
SeedOne == KeyFromNat(1).raw
SeedTwo == KeyFromNat(2).raw
WalletTwo == KeyFromNat(514)
PrivateKeyOne == SeedOne \o WalletKey.raw
PrivateKeyTwo == SeedTwo \o WalletTwo.raw

TestTransactions ==
    { [Signers |-> <<WalletKey>>], [Signers |-> <<WalletTwo>>],
      [Signers |-> <<WalletKey, WalletTwo>>] }

TransactionStrs ==
    { [text |-> "invalid-base64-data"], [base64 |-> [bytes |-> "not a transaction"]] }
    \cup { [base64 |-> tx] : tx \in TestTransactions }

\* not base58; base58 of a public key's length; two private keys
PrivateKeyStrs ==
    { BadStr, KeyString(WalletKey), Base58Encode(PrivateKeyOne), Base58Encode(PrivateKeyTwo) }

TestRequests ==
    { TransactionTestRequest(t, s, k) :
        t \in TransactionStrs, s \in BOOLEAN, k \in PrivateKeyStrs }

\* what rpcClient.SimulateTransaction can return
SimulateResults ==
    { [err |-> "rpc: connection refused", Value |-> Nil] }
    \cup { [err |-> NoErr, Value |-> [Err |-> e, Logs |-> l, UnitsConsumed |-> u]] :
             e \in {NoErr, "InstructionError"},
             l \in {<< >>, <<"Program log: swap">>},
             u \in {Nil, [val |-> 0], [val |-> 150]} }

\* what rpcClient.SendTransaction can return
SendResults ==
    { [err |-> "rpc: blockhash not found", signature |-> ""],
      [err |-> NoErr, signature |-> "signature"] }

\* what rpcClient.GetTransaction can return
GetTransactionResults ==
    { [err |-> "not found", txDetails |-> Nil],
      [err |-> NoErr, txDetails |-> Nil],
      [err |-> NoErr, txDetails |-> [Meta |-> Nil]],
      [err |-> NoErr, txDetails |-> [Meta |-> [LogMessages |-> <<"Program log: swap">>]]] }

\* a variant of SimulateTransaction that passes the request on as given
SimulateTransactionRequest_AsGiven(req) == req

\* TransactionService.SimulateTransaction: the request TestTransaction gets
SimulateTransactionRequest(req) == [req EXCEPT !.SimulateOnly = TRUE]

\* a variant of TestTransaction that keeps the parsed key in the service
ServiceAfterTest_KeepsKey(service, frame) ==
    [service |-> service, lastKey |-> frame.privateKey]

\* the receiver after TestTransaction has run with the locals in frame
\* (txData, tx, privateKey, ctx): the method reads ts.rpcClient and assigns
\* no field of ts, and no local is stored outside the frame
ServiceAfterTest(service, frame) == service

\* the call returns resp with a nil Go error
TestReturns(resp) ==
    tt' = [tt EXCEPT !.pc = "done", !.out = [resp |-> resp, goErr |-> NoErr]]

\* the call advances to the next step
TestAdvances(pc, step) ==
    tt' = [tt EXCEPT !.pc = pc, !.steps = Append(@, step)]

\* the handler or a caller invokes TestTransaction or SimulateTransaction;
\* SimulateTransaction sets req.SimulateOnly before it calls TestTransaction
TestTransactionBegin ==
    /\ tt.pc = "idle"
    /\ \E req \in TestRequests, entry \in {"TestTransaction", "SimulateTransaction"} :
          tt' = [pc |-> "decode", entry |-> entry, given |-> req,
                 req |-> IF entry = "SimulateTransaction"
                         THEN SimulateTransactionRequest(req) ELSE req,
                 steps |-> << >>, rpc |-> << >>, tx |-> Nil, privateKey |-> << >>,
                 out |-> Nil]
    /\ UNCHANGED <<adapterVars, registryVars, minOutCall, mr, serviceVars, configVars, raceVars>>

TestDecode ==
    /\ tt.pc = "decode"
    /\ IF DecodeString(tt.req.Transaction).err # NoErr
       THEN TestReturns(TestFailure("Failed to decode transaction",
                                    DecodeString(tt.req.Transaction).err, << >>))
       ELSE TestAdvances("deserialize", "Decoded")
    /\ UNCHANGED <<adapterVars, registryVars, minOutCall, mr, serviceVars, configVars, raceVars>>

TestDeserialize ==
    /\ tt.pc = "deserialize"
    /\ LET decoded == BorshDecode(DecodeString(tt.req.Transaction).data)
       IN  IF decoded.err # NoErr
           THEN TestReturns(TestFailure("Failed to deserialize transaction", decoded.err, << >>))
           ELSE tt' = [tt EXCEPT !.pc = "parseKey", !.steps = Append(@, "Built"),
                                 !.tx = decoded.tx]
    /\ UNCHANGED <<adapterVars, registryVars, minOutCall, mr, serviceVars, configVars, raceVars>>

TestParseKey ==
    /\ tt.pc = "parseKey"
    /\ LET parsed == PrivateKeyFromBase58(tt.req.PrivateKey)
       IN  IF parsed.err # NoErr
           THEN TestReturns(TestFailure("Invalid private key", parsed.err, << >>))
           ELSE tt' = [tt EXCEPT !.pc = "sign", !.steps = Append(@, "KeyParsed"),
                                 !.privateKey = parsed.key]
    /\ UNCHANGED <<adapterVars, registryVars, minOutCall, mr, serviceVars, configVars, raceVars>>

TestSign ==
    /\ tt.pc = "sign"
    /\ LET signed == Sign(tt.tx, tt.privateKey)
       IN  IF signed.err # NoErr
           THEN TestReturns(TestFailure("Failed to sign transaction", signed.err, << >>))
           ELSE tt' = [tt EXCEPT !.pc = IF tt.req.SimulateOnly THEN "simulate" ELSE "send",
                                 !.steps = Append(@, "Signed"), !.tx = signed.tx]
    /\ UNCHANGED <<adapterVars, registryVars, minOutCall, mr, serviceVars, configVars, raceVars>>

\* simulateTransaction: the RPC call and the response made of its result
TestSimulate ==
    /\ tt.pc = "simulate"
    /\ \E simResult \in SimulateResults :
          tt' = [tt EXCEPT
                   !.pc = IF simulateTransaction(simResult) = Crashed
                          THEN "panicked" ELSE "done",
                   !.steps = Append(@, "Simulated"),
                   !.rpc = Append(@, [method |-> "simulateTransaction", tx |-> tt.tx,
                                      result |-> simResult]),
                   !.out = IF simulateTransaction(simResult) = Crashed THEN Crashed
                           ELSE [resp |-> simulateTransaction(simResult), goErr |-> NoErr]]
    /\ UNCHANGED <<adapterVars, registryVars, minOutCall, mr, serviceVars, configVars, raceVars>>

\* sendTransaction, first half: the SendTransaction RPC call
TestSend ==
    /\ tt.pc = "send"
    /\ \E sent \in SendResults :
          tt' = [tt EXCEPT
                   !.pc = IF sent.err # NoErr THEN "done" ELSE "getTransaction",
                   !.steps = IF sent.err # NoErr THEN @ ELSE Append(@, "Submitted"),
                   !.rpc = Append(@, [method |-> "sendTransaction", tx |-> tt.tx,
                                      result |-> sent]),
                   !.out = IF sent.err # NoErr
                           THEN [resp |-> TestFailure("Failed to send transaction",
                                                      sent.err, << >>),
                                 goErr |-> NoErr]
                           ELSE @]
    /\ UNCHANGED <<adapterVars, registryVars, minOutCall, mr, serviceVars, configVars, raceVars>>

\* sendTransaction, second half: the GetTransaction RPC call and the response
TestGetTransaction ==
    /\ tt.pc = "getTransaction"
    /\ \E got \in GetTransactionResults :
       LET sent == tt.rpc[Len(tt.rpc)].result
       IN  tt' = [tt EXCEPT
                   !.pc = IF sendTransaction(sent, got) = Crashed
                          THEN "panicked" ELSE "done",
                   !.rpc = Append(@, [method |-> "getTransaction",
                                      tx |-> sent.signature, result |-> got]),
                   !.out = IF sendTransaction(sent, got) = Crashed THEN Crashed
                           ELSE [resp |-> sendTransaction(sent, got), goErr |-> NoErr]]
    /\ UNCHANGED <<adapterVars, registryVars, minOutCall, mr, serviceVars, configVars, raceVars>>

\* the caller has the response, or the panic has unwound; the service is
\* ready for the next request
TestTransactionEnd ==
    /\ tt.pc \in {"done", "panicked"}
    /\ tt' = NoTest
    /\ ts' = ServiceAfterTest(ts, tt)
    /\ UNCHANGED <<adapterVars, registryVars, minOutCall, mr, build, enc, configVars, raceVars>>

NextTest ==
    \/ TestTransactionBegin
    \/ TestDecode
    \/ TestDeserialize
    \/ TestParseKey
    \/ TestSign
    \/ TestSimulate
    \/ TestSend
    \/ TestGetTransaction
    \/ TestTransactionEnd

SpecTest == Init /\ [][NextTest]_vars

TestInProgress == tt.pc # "idle"
TestAnswered == tt.pc = "done"

\* what the request given to the call in progress decodes, deserializes and
\* parses to
GivenDecoded == DecodeString(tt.given.Transaction)
GivenTransaction == BorshDecode(GivenDecoded.data)
GivenKey == PrivateKeyFromBase58(tt.given.PrivateKey)

GivenWellFormed ==
    /\ GivenDecoded.err = NoErr
    /\ GivenTransaction.err = NoErr
    /\ GivenKey.err = NoErr

\* the supplied key is the key of none of the required signers
KeyMatchesNoSigner ==
    /\ GivenWellFormed
    /\ \A i \in 1..Len(GivenTransaction.tx.Signers) :
          GivenTransaction.tx.Signers[i] # PrivateKeyPublicKey(GivenKey.key)

LedgerMethods == {"simulateTransaction", "sendTransaction"}

LedgerCalls(method) == { i \in 1..Len(tt.rpc) : tt.rpc[i].method = method }

\* C14: SimulateTransaction never calls send-transaction, whatever the
\* request's simulate_only flag was; TestTransaction calls send-transaction
\* only when simulate_only is false; a request makes at most one of the
\* simulate-transaction and send-transaction calls, and makes it at most once.
C14_SimulateNeverSends ==
    TestInProgress =>
        /\ tt.entry = "SimulateTransaction" => LedgerCalls("sendTransaction") = {}
        /\ LedgerCalls("sendTransaction") # {} =>
              tt.entry = "TestTransaction" /\ ~tt.given.SimulateOnly
        /\ Cardinality(LedgerCalls("simulateTransaction")
                         \cup LedgerCalls("sendTransaction")) <= 1

\* SimulateTransaction, given a request with simulate_only false, has
\* simulated and answered
C14_Witness ==
    /\ TestAnswered
    /\ tt.entry = "SimulateTransaction"
    /\ ~tt.given.SimulateOnly
    /\ LedgerCalls("simulateTransaction") = {1}
    /\ LedgerCalls("sendTransaction") = {}

\* the call in progress has made its simulate-transaction call
HasSimulated == TestInProgress /\ LedgerCalls("simulateTransaction") # {}
SimResult == tt.rpc[1].result

\* C15: a simulation is answered with success=true exactly when the
\* simulate-transaction call returned without transport error and without
\* an on-chain error, and the response then carries the execution logs and
\* the compute units consumed; when the simulation reports an on-chain
\* revert the response has success=false, a non-empty error and the
\* revert's logs.
C15_SimulationResponse ==
    HasSimulated =>
        /\ TestAnswered
        /\ tt.out.resp.Success <=> (SimResult.err = NoErr /\ SimResult.Value.Err = NoErr)
        /\ tt.out.resp.Success =>
              /\ tt.out.resp.Logs = SimResult.Value.Logs
              /\ SimResult.Value.UnitsConsumed # Nil
              /\ tt.out.resp.GasUsed = SimResult.Value.UnitsConsumed.val
        /\ (SimResult.err = NoErr /\ SimResult.Value.Err # NoErr) =>
              /\ ~tt.out.resp.Success
              /\ tt.out.resp.Error # NoMessage
              /\ tt.out.resp.Logs = SimResult.Value.Logs

\* the call in progress has made its send-transaction call
HasSent == TestInProgress /\ LedgerCalls("sendTransaction") # {}
SendResult == tt.rpc[1].result
GetTransactionReturned == HasSent /\ LedgerCalls("getTransaction") # {}

\* C16: once send-transaction has returned a signature, TestTransaction
\* returns success=true with that signature whether the get-transaction
\* call that follows succeeds, fails or returns nothing; only a failure of
\* send-transaction itself yields success=false.
C16_SubmissionStandsWithoutDetails ==
    HasSent =>
        /\ SendResult.err # NoErr => TestAnswered /\ ~tt.out.resp.Success
        /\ GetTransactionReturned =>
              /\ SendResult.err = NoErr
              /\ TestAnswered
              /\ tt.out.resp.Success
              /\ tt.out.resp.Signature = SendResult.signature

\* C17: for every request whose transaction string is not valid base64 or
\* does not deserialize to a transaction, or whose private key does not
\* parse, TestTransaction and SimulateTransaction return a response with
\* success=false and a non-empty error, return a nil Go error and make no
\* ledger RPC call.
C17_MalformedRequestIsRefused ==
    (TestInProgress /\ ~GivenWellFormed) =>
        /\ tt.rpc = << >>
        /\ tt.pc \in {"decode", "deserialize", "parseKey", "done"}
        /\ TestAnswered =>
              /\ ~tt.out.resp.Success
              /\ tt.out.resp.Error # NoMessage
              /\ tt.out.resp.Error.prefix \in
                    {"Failed to decode transaction", "Failed to deserialize transaction",
                     "Invalid private key"}
              /\ tt.out.goErr = NoErr

\* SimulateTransaction has refused a well-formed transaction whose key is
\* not base58
C17_Witness ==
    /\ TestAnswered
    /\ tt.entry = "SimulateTransaction"
    /\ GivenTransaction.err = NoErr
    /\ GivenKey.err # NoErr
    /\ tt.out.resp.Error.prefix = "Invalid private key"

\* the names of the enabled entries of a configuration
EnabledNames(cfg) ==
    { cfg.DEXes[i].Name : i \in { j \in 1..Len(cfg.DEXes) : cfg.DEXes[j].Enabled } }

\* C18: the registry built by NewTransactionService holds only names of
\* enabled configuration entries; for a name that is unknown, or configured
\* but disabled, GetDEXAdapter returns an error and no adapter, and
\* EncodeSwapTransaction / EncodeLiquidityTransaction return success=false
\* with the error "DEX adapter not found: <name>" and a nil Go error, and
\* make no ledger RPC call.
C18_OnlyEnabledDEXesAreServed ==
    /\ DOMAIN ts.adapterRegistry \subseteq EnabledNames(ts.config)
    /\ (enc.op = "GetDEXAdapter" /\ enc.name \notin EnabledNames(ts.config)) =>
          /\ enc.result.err # NoErr
          /\ enc.result.adapter = Nil
    /\ (EncodeAnswered /\ enc.req.DEXType \notin EnabledNames(ts.config)) =>
          /\ enc.result.resp = FailureResponse(Message("DEX adapter not found", enc.req.DEXType))
          /\ enc.result.goErr = NoErr
          /\ enc.result.rpc = << >>
          /\ enc.result.instr = Nil

\* a swap on raydium, which is configured but disabled, has been refused
C18_Witness ==
    /\ enc.op = "EncodeSwapTransaction"
    /\ enc.req.DEXType = "raydium"
    /\ \E i \in 1..Len(ts.config.DEXes) :
          ts.config.DEXes[i].Name = "raydium" /\ ~ts.config.DEXes[i].Enabled
    /\ ValidateSwapRequest(enc.req) = NoErr
    /\ ~enc.result.resp.Success

\* C19: for every adapter NewTransactionService registered, the registry
\* key, adapter.GetName() and adapter.GetConfig().Name are equal, and
\* GetConfig() is the adapter's own entry of the configuration (its
\* endpoints and retry count), also after the later adapters were built.
C19_AdapterOwnsItsConfig ==
    ts # Nil =>
        \A name \in DOMAIN ts.adapterRegistry :
            LET adapter == GetDEXAdapter(ts, name).adapter
            IN  /\ adapter.name = name
                /\ adapter.config.Name = name
                /\ \E i \in 1..Len(ts.config.DEXes) :
                      /\ ts.config.DEXes[i].Name = name
                      /\ ts.config.DEXes[i].Enabled
                      /\ adapter.config = ts.config.DEXes[i]

(***************************************************************************)
(* ConfigService, DEXService and TransactionService on one configuration.  *)
(* The three services are constructed with the same *config.Config; heap   *)
(* maps an address to the Config object stored there and svc gives the     *)
(* address each service's config field holds.  An object no service refers *)
(* to is dropped from heap.  The file at configPath holds [yaml |-> cfg].   *)
(***************************************************************************)
\* the RetryCount SetDefaults and AddDEXConfig give an entry that has none
DefaultRetryCount == 3

\* the address of the Config the services are constructed with, and of the
\* Config that UpdateConfig, ReloadConfig hand to the ConfigService
StartupAddr == "cfg0"
ReplacedAddr == "cfg1"

\* the checks of Config.Validate and of UpdateDEXConfig on the DEX entries:
\* the error for the first entry without name or program id
ValidateDEXes(dexes) ==
    LET bad == { i \in 1..Len(dexes) : dexes[i].Name = "" \/ dexes[i].ProgramID = EmptyStr }
        first == CHOOSE i \in bad : \A j \in bad : i <= j
    IN  IF bad = {} THEN NoErr
        ELSE IF dexes[first].Name = "" THEN "dex name is required"
        ELSE "dex program_id is required"

DEXDefaults(dex) ==
    [dex EXCEPT !.RetryCount = IF @ = 0 THEN DefaultRetryCount ELSE @]

\* Config.SetDefaults, on the DEX entries
SetDefaults(cfg) == Config([i \in 1..Len(cfg.DEXes) |-> DEXDefaults(cfg.DEXes[i])])

\* ConfigService.saveConfigToFile: [err, file]; written tells whether the
\* file could be written
saveConfigToFile(cfg, old, written) ==
    IF written THEN [err |-> NoErr, file |-> [yaml |-> cfg]]
    ELSE [err |-> "failed to save config", file |-> old]

\* config.LoadConfig: [err, config]
LoadConfig(content) ==
    IF content = Nil THEN [err |-> "config file not found", config |-> Nil]
    ELSE IF ValidateDEXes(content.yaml.DEXes) # NoErr
    THEN [err |-> "invalid config", config |-> Nil]
    ELSE [err |-> NoErr, config |-> SetDefaults(content.yaml)]

\* the state a ConfigService operation leaves: its error, the objects in
\* memory, the address ConfigService.config holds and the file
ConfigOutcome(err, objects, cs, content) ==
    [err |-> err, heap |-> objects, cs |-> cs, file |-> content]

\* the index of the first entry named name, 0 when there is none
IndexOfDEX(dexes, name) ==
    IF \E i \in 1..Len(dexes) : dexes[i].Name = name
    THEN CHOOSE i \in 1..Len(dexes) :
            /\ dexes[i].Name = name
            /\ \A j \in 1..(i - 1) : dexes[j].Name # name
    ELSE 0

\* the object at the address cs with its DEX entries replaced, then saved
StoreDEXes(objects, cs, content, dexes, written) ==
    LET changed == [objects EXCEPT ![cs] = Config(dexes)]
        saved   == saveConfigToFile(changed[cs], content, written)
    IN  ConfigOutcome(saved.err, changed, cs, saved.file)

\* ConfigService.UpdateConfig
UpdateConfig(objects, cs, content, newConfig, written) ==
    IF ValidateDEXes(newConfig.DEXes) # NoErr
    THEN ConfigOutcome("invalid config", objects, cs, content)
    ELSE IF ~written
    THEN ConfigOutcome("failed to save config", objects, cs, content)
    ELSE ConfigOutcome(NoErr,
             MapPut(objects, ReplacedAddr, SetDefaults(newConfig)),
             ReplacedAddr, [yaml |-> SetDefaults(newConfig)])

\* ConfigService.UpdateDEXConfig
UpdateDEXConfig(objects, cs, content, dexConfigs, written) ==
    IF ValidateDEXes(dexConfigs) # NoErr
    THEN ConfigOutcome(ValidateDEXes(dexConfigs), objects, cs, content)
    ELSE StoreDEXes(objects, cs, content, dexConfigs, written)

\* ConfigService.AddDEXConfig
AddDEXConfig(objects, cs, content, dexConfig, written) ==
    IF IndexOfDEX(objects[cs].DEXes, dexConfig.Name) # 0
    THEN ConfigOutcome("DEX already exists", objects, cs, content)
    ELSE IF dexConfig.Name = ""
    THEN ConfigOutcome("DEX name is required", objects, cs, content)
    ELSE IF dexConfig.ProgramID = EmptyStr
    THEN ConfigOutcome("DEX program_id is required", objects, cs, content)
    ELSE StoreDEXes(objects, cs, content,
                    Append(objects[cs].DEXes, DEXDefaults(dexConfig)), written)

\* a variant of RemoveDEXConfig that drops the last entry
RemoveDEXConfig_DropsLast(objects, cs, content, dexName, written) ==
    LET dexes == objects[cs].DEXes
    IN  IF IndexOfDEX(dexes, dexName) = 0
        THEN ConfigOutcome("DEX not found", objects, cs, content)
        ELSE StoreDEXes(objects, cs, content, SubSeq(dexes, 1, Len(dexes) - 1), written)

\* ConfigService.RemoveDEXConfig
RemoveDEXConfig(objects, cs, content, dexName, written) ==
    LET dexes == objects[cs].DEXes
        index == IndexOfDEX(dexes, dexName)
    IN  IF index = 0
        THEN ConfigOutcome("DEX not found", objects, cs, content)
        ELSE StoreDEXes(objects, cs, content,
                        SubSeq(dexes, 1, index - 1) \o SubSeq(dexes, index + 1, Len(dexes)),
                        written)

\* ConfigService.setDEXEnabled (EnableDEX, DisableDEX)
setDEXEnabled(objects, cs, content, dexName, enabled, written) ==
    LET dexes == objects[cs].DEXes
        index == IndexOfDEX(dexes, dexName)
    IN  IF index = 0
        THEN ConfigOutcome("DEX not found", objects, cs, content)
        ELSE StoreDEXes(objects, cs, content,
                        [dexes EXCEPT ![index].Enabled = enabled], written)

\* ConfigService.ReloadConfig
ReloadConfig(objects, cs, content) ==
    IF LoadConfig(content).err # NoErr
    THEN ConfigOutcome("failed to reload config", objects, cs, content)
    ELSE ConfigOutcome(NoErr,
             MapPut(objects, ReplacedAddr, LoadConfig(content).config),
             ReplacedAddr, content)

\* DEXService.ListDEXes on the Config the DEXService holds
ListDEXes(cfg) ==
    [i \in 1..Len(cfg.DEXes) |->
       [Name |-> cfg.DEXes[i].Name, Enabled |-> cfg.DEXes[i].Enabled,
        Status |-> IF cfg.DEXes[i].Enabled THEN "online" ELSE "offline"]]

\* DEXService.GetEnabledDEXes
GetEnabledDEXes(cfg) == SelectSeq(ListDEXes(cfg), LAMBDA dex : dex.Enabled)

\* the configurations the services are started with: every entry's program
\* id parses and its name has an adapter
StartupConfigs ==
    { Config(<<RaydiumConfig(r), PumpfunConfig(TRUE)>>) : r \in BOOLEAN }

\* the entries a client sends to AddDEXConfig
DEXConfigInputs ==
    { RaydiumConfig(TRUE), RaydiumConfig(FALSE), PumpfunConfig(TRUE), PumpfunConfig(FALSE),
      DEXConfig("", KeyString(KeyFromNat(1001)), EmptyStr, TRUE, 3),
      DEXConfig("pumpfun", EmptyStr, EmptyStr, TRUE, 2) }

\* the entry lists a client sends to UpdateDEXConfig and UpdateConfig
DEXListInputs ==
    { << >>, <<RaydiumConfig(TRUE)>>, <<PumpfunConfig(TRUE), RaydiumConfig(FALSE)>>,
      <<RaydiumConfig(TRUE), DEXConfig("", KeyString(KeyFromNat(1002)), EmptyStr, TRUE, 2)>> }

DEXNameInputs == {"raydium", "pumpfun", "invalid-dex"}

\* the services have been constructed
ConfigServed == svc # Nil

\* a ConfigService operation has returned out
ConfigChanged(out) ==
    /\ heap' = [a \in {StartupAddr, out.cs} |-> out.heap[a]]
    /\ svc' = [svc EXCEPT !.cs = out.cs]
    /\ file' = out.file
    /\ obs' = NoCall

UpdateConfigCall ==
    /\ ConfigServed
    /\ \E dexes \in DEXListInputs, written \in BOOLEAN :
          ConfigChanged(UpdateConfig(heap, svc.cs, file, Config(dexes), written))
    /\ UNCHANGED <<adapterVars, registryVars, minOutCall, mr, serviceVars, testVars, raceVars>>

UpdateDEXConfigCall ==
    /\ ConfigServed
    /\ \E dexes \in DEXListInputs, written \in BOOLEAN :
          ConfigChanged(UpdateDEXConfig(heap, svc.cs, file, dexes, written))
    /\ UNCHANGED <<adapterVars, registryVars, minOutCall, mr, serviceVars, testVars, raceVars>>

AddDEXConfigCall ==
    /\ ConfigServed
    /\ \E dex \in DEXConfigInputs, written \in BOOLEAN :
          ConfigChanged(AddDEXConfig(heap, svc.cs, file, dex, written))
    /\ UNCHANGED <<adapterVars, registryVars, minOutCall, mr, serviceVars, testVars, raceVars>>

RemoveDEXConfigCall ==
    /\ ConfigServed
    /\ \E name \in DEXNameInputs, written \in BOOLEAN :
          ConfigChanged(RemoveDEXConfig(heap, svc.cs, file, name, written))
    /\ UNCHANGED <<adapterVars, registryVars, minOutCall, mr, serviceVars, testVars, raceVars>>

EnableDEXCall ==
    /\ ConfigServed
    /\ \E name \in DEXNameInputs, written \in BOOLEAN :
          ConfigChanged(setDEXEnabled(heap, svc.cs, file, name, TRUE, written))
    /\ UNCHANGED <<adapterVars, registryVars, minOutCall, mr, serviceVars, testVars, raceVars>>

DisableDEXCall ==
    /\ ConfigServed
    /\ \E name \in DEXNameInputs, written \in BOOLEAN :
          ConfigChanged(setDEXEnabled(heap, svc.cs, file, name, FALSE, written))
    /\ UNCHANGED <<adapterVars, registryVars, minOutCall, mr, serviceVars, testVars, raceVars>>

ReloadConfigCall ==
    /\ ConfigServed
    /\ ConfigChanged(ReloadConfig(heap, svc.cs, file))
    /\ UNCHANGED <<adapterVars, registryVars, minOutCall, mr, serviceVars, testVars, raceVars>>

\* a request on a service: what it reads and returns
Observed(op, result) == obs' = [op |-> op, result |-> result]

\* DEXService.ListDEXes
ListDEXesCall ==
    /\ ConfigServed
    /\ Observed("ListDEXes", ListDEXes(heap[svc.ds]))
    /\ UNCHANGED <<heap, svc, file>>
    /\ UNCHANGED <<adapterVars, registryVars, minOutCall, mr, serviceVars, testVars, raceVars>>

\* TransactionService.GetSupportedDEXes
GetSupportedDEXesCall ==
    /\ ConfigServed
    /\ \E names \in GetSupportedDEXes(ts) : Observed("GetSupportedDEXes", names)
    /\ UNCHANGED <<heap, svc, file>>
    /\ UNCHANGED <<adapterVars, registryVars, minOutCall, mr, serviceVars, testVars, raceVars>>

\* ConfigService.GetDEXConfig
GetDEXConfigCall ==
    /\ ConfigServed
    /\ Observed("GetDEXConfig", heap[svc.cs].DEXes)
    /\ UNCHANGED <<heap, svc, file>>
    /\ UNCHANGED <<adapterVars, registryVars, minOutCall, mr, serviceVars, testVars, raceVars>>

InitConfig ==
    /\ AdapterIdle /\ RegistryIdle /\ MinOutIdle /\ RetryIdle /\ TestIdle /\ RaceIdle
    /\ build \in Builds /\ enc = NoCall
    /\ \E cfg \in StartupConfigs :
          /\ ts = NewTransactionService(cfg, build)
          /\ heap = [a \in {StartupAddr} |-> cfg]
          /\ file = [yaml |-> cfg]
    /\ svc = [cs |-> StartupAddr, ds |-> StartupAddr, ts |-> StartupAddr]
    /\ obs = NoCall

NextConfig ==
    \/ UpdateConfigCall
    \/ UpdateDEXConfigCall
    \/ AddDEXConfigCall
    \/ RemoveDEXConfigCall
    \/ EnableDEXCall
    \/ DisableDEXCall
    \/ ReloadConfigCall
    \/ ListDEXesCall
    \/ GetSupportedDEXesCall
    \/ GetDEXConfigCall

SpecConfig == InitConfig /\ [][NextConfig]_vars

\* the names a list of types.DEXInfo reports as online
OnlineNames(infos) == { infos[i].Name : i \in { j \in 1..Len(infos) : infos[j].Status = "online" } }

\* C20: after any sequence of configuration changes interleaved with
\* requests, every request observes a consistent registry and
\* configuration: the DEXes that DEXService reports as enabled / online are
\* the names the adapter registry serves, and ConfigService, DEXService and
\* TransactionService all see the same configuration.
C20_RegistryAndConfigAgree ==
    ConfigServed =>
        /\ heap[svc.cs] = heap[svc.ds]
        /\ heap[svc.ds] = heap[svc.ts]
        /\ OnlineNames(ListDEXes(heap[svc.ds])) = DOMAIN ts.adapterRegistry
        /\ OnlineNames(GetEnabledDEXes(heap[svc.ds])) = DOMAIN ts.adapterRegistry
        /\ obs.op = "ListDEXes" => OnlineNames(obs.result) = DOMAIN ts.adapterRegistry
        /\ obs.op = "GetSupportedDEXes" =>
              { obs.result[i] : i \in 1..Len(obs.result) } = EnabledNames(heap[svc.cs])

(***************************************************************************)
(* The ConfigService alone, as a client (a handler, a test) uses it: it    *)
(* calls one operation at a time and gets the operation's error back.      *)
(* obs holds the last operation, its argument and the error it returned.   *)
(***************************************************************************)
\* the entry lists a client sends, one of them naming a DEX twice
DEXListCalls ==
    DEXListInputs \cup { <<RaydiumConfig(TRUE), RaydiumConfig(FALSE)>> }

\* the ConfigService operation op, called with arg, has returned out
ConfigReturned(op, arg, out) ==
    /\ heap' = [a \in {out.cs} |-> out.heap[a]]
    /\ svc' = [svc EXCEPT !.cs = out.cs]
    /\ file' = out.file
    /\ obs' = [op |-> op, arg |-> arg, err |-> out.err, before |-> heap[svc.cs].DEXes]

CallUpdateConfig ==
    /\ ConfigServed
    /\ \E dexes \in DEXListCalls, written \in BOOLEAN :
          ConfigReturned("UpdateConfig", dexes,
                         UpdateConfig(heap, svc.cs, file, Config(dexes), written))
    /\ UNCHANGED <<adapterVars, registryVars, minOutCall, mr, serviceVars, testVars, raceVars>>

CallUpdateDEXConfig ==
    /\ ConfigServed
    /\ \E dexes \in DEXListCalls, written \in BOOLEAN :
          ConfigReturned("UpdateDEXConfig", dexes,
                         UpdateDEXConfig(heap, svc.cs, file, dexes, written))
    /\ UNCHANGED <<adapterVars, registryVars, minOutCall, mr, serviceVars, testVars, raceVars>>

CallAddDEXConfig ==
    /\ ConfigServed
    /\ \E dex \in DEXConfigInputs, written \in BOOLEAN :
          ConfigReturned("AddDEXConfig", dex,
                         AddDEXConfig(heap, svc.cs, file, dex, written))
    /\ UNCHANGED <<adapterVars, registryVars, minOutCall, mr, serviceVars, testVars, raceVars>>

CallRemoveDEXConfig ==
    /\ ConfigServed
    /\ \E name \in DEXNameInputs, written \in BOOLEAN :
          ConfigReturned("RemoveDEXConfig", name,
                         RemoveDEXConfig(heap, svc.cs, file, name, written))
    /\ UNCHANGED <<adapterVars, registryVars, minOutCall, mr, serviceVars, testVars, raceVars>>

CallEnableDEX ==
    /\ ConfigServed
    /\ \E name \in DEXNameInputs, written \in BOOLEAN :
          ConfigReturned("EnableDEX", name,
                         setDEXEnabled(heap, svc.cs, file, name, TRUE, written))
    /\ UNCHANGED <<adapterVars, registryVars, minOutCall, mr, serviceVars, testVars, raceVars>>

CallDisableDEX ==
    /\ ConfigServed
    /\ \E name \in DEXNameInputs, written \in BOOLEAN :
          ConfigReturned("DisableDEX", name,
                         setDEXEnabled(heap, svc.cs, file, name, FALSE, written))
    /\ UNCHANGED <<adapterVars, registryVars, minOutCall, mr, serviceVars, testVars, raceVars>>

CallReloadConfig ==
    /\ ConfigServed
    /\ ConfigReturned("ReloadConfig", Nil, ReloadConfig(heap, svc.cs, file))
    /\ UNCHANGED <<adapterVars, registryVars, minOutCall, mr, serviceVars, testVars, raceVars>>

\* NewConfigService(cfg) with a configuration whose DEX names are distinct
InitConfigService ==
    /\ AdapterIdle /\ RegistryIdle /\ MinOutIdle /\ RetryIdle /\ TestIdle /\ RaceIdle /\ ServiceIdle
    /\ \E cfg \in StartupConfigs :
          /\ heap = [a \in {StartupAddr} |-> cfg]
          /\ file = [yaml |-> cfg]
    /\ svc = [cs |-> StartupAddr]
    /\ obs = NoCall

NextConfigService ==
    \/ CallUpdateConfig
    \/ CallUpdateDEXConfig
    \/ CallAddDEXConfig
    \/ CallRemoveDEXConfig
    \/ CallEnableDEX
    \/ CallDisableDEX
    \/ CallReloadConfig

SpecConfigService == InitConfigService /\ [][NextConfigService]_vars

\* ConfigService.GetConfig
GetConfig == heap[svc.cs]

\* no two entries of the list have the same name
NamesDistinct(dexes) ==
    \A i, j \in 1..Len(dexes) : dexes[i].Name = dexes[j].Name => i = j

\* the operations C21 names
KeyedOperations ==
    {"AddDEXConfig", "UpdateDEXConfig", "UpdateConfig", "RemoveDEXConfig", "EnableDEX",
     "DisableDEX"}

\* C21: the DEX name is a unique key: a ConfigService operation
\* (AddDEXConfig, UpdateDEXConfig, UpdateConfig, RemoveDEXConfig, EnableDEX,
\* DisableDEX) that returns success on a configuration whose DEX names are
\* distinct leaves a configuration whose DEX names are distinct.
C21_NamesStayUnique ==
    [][ (/\ NamesDistinct(GetConfig.DEXes)
         /\ obs'.op \in KeyedOperations
         /\ obs'.err = NoErr)
        => NamesDistinct(GetConfig'.DEXes) ]_vars

\* the instruction an Encode call built from the adapter's InstructionData:
\* the last one of the transaction, after the compute-budget instruction
EncodedInstruction == enc.result.tx.Instructions[Len(enc.result.tx.Instructions)]

EncodeBuiltTransaction == EncodeAnswered /\ enc.result.tx # Nil

\* C22: the instruction that EncodeSwapTransaction /
\* EncodeLiquidityTransaction place into the transaction has exactly the
\* accounts of the adapter's InstructionData, in the same order and with
\* the same signer and writable flags; account 0 is the user wallet, marked
\* signer.
C22_InstructionKeepsAccounts ==
    EncodeBuiltTransaction =>
        /\ Len(EncodedInstruction.Accounts) = Len(enc.result.instr.Accounts)
        /\ \A i \in 1..Len(enc.result.instr.Accounts) :
              EncodedInstruction.Accounts[i] = enc.result.instr.Accounts[i]
        /\ EncodedInstruction.Accounts[1].PublicKey
              = PublicKeyFromBase58(enc.req.UserWallet).key
        /\ EncodedInstruction.Accounts[1].IsSigner

(***************************************************************************)
(* TestTransaction on a constructed service.                               *)
(***************************************************************************)
SpecTestService == InitService /\ [][NextTest]_vars

\* C23: TestTransaction and SimulateTransaction leave the state of the
\* TransactionService (configuration, adapter registry) unchanged at every
\* step of the call, and when the call has returned nothing of its frame,
\* the private key included, is left for a later request.
C23_TestLeavesServiceAlone ==
    [][ TestInProgress =>
          /\ ts' = ts
          /\ build' = build
          /\ tt'.pc = "idle" => tt' = NoTest ]_vars

\* a call on a constructed service that parsed the caller's key, signed and
\* is about to return
C23_Witness ==
    /\ ts # Nil
    /\ tt.pc = "done"
    /\ tt.privateKey # << >>
    /\ "Signed" \in { tt.steps[i] : i \in 1..Len(tt.steps) }


(***************************************************************************)
(* The delays of makeRequest.                                              *)
(***************************************************************************)
\* another attempt follows the attempts made so far
AttemptFollows == mr.pc = "loop" /\ mr.i < mr.retryCount

\* C24: makeRequest waits k seconds after the k-th failed attempt, for
\* k = 1, 2, ..., and only between attempts: there is one wait for every
\* attempt that another attempt follows, and none after the final attempt or
\* after an attempt that ended the loop.
C24_LinearBackoffBetweenAttempts ==
    mr.pc # "idle" =>
        /\ \A k \in 1..Len(mr.sleeps) : mr.sleeps[k] = k
        /\ Len(mr.sleeps) = IF AttemptFollows THEN Len(mr.outcomes)
                            ELSE IF mr.outcomes = << >> THEN 0
                            ELSE Len(mr.outcomes) - 1

\* a call whose three attempts all failed: it waited 1 s, then 2 s, and not
\* after the third
C24_Witness ==
    /\ mr.pc = "returned"
    /\ Len(mr.outcomes) = 3
    /\ mr.retryCount = 3
    /\ \A k \in 1..3 : Retryable(mr.outcomes[k])
    /\ mr.sleeps = <<1, 2>>


(***************************************************************************)
(* buildTransaction on its own: every instruction list, payer string,      *)
(* priority fee and blockhash answer of the bounded sets below.            *)
(***************************************************************************)
InstructionOne == createInstruction(KeyFromNat(1), <<AccountMeta(WalletKey, TRUE, TRUE)>>, <<1>>)
InstructionTwo == createInstruction(KeyFromNat(2), << >>, <<2, 0>>)
InstructionLists ==
    {<<InstructionOne>>, <<InstructionOne, InstructionTwo>>,
     <<InstructionTwo, InstructionOne>>}

\* fees whose bytes differ: 258 = 02 01, 66051 = 03 02 01
PriorityFees == {0, 1, 5, 258, 66051}

\* a base58 string of one byte too many for an address
LongStr == Base58Encode(WalletKey.raw \o <<1>>)
PayerStrs == WalletStrs \cup {LongStr}

buildTransactionCall ==
    /\ enc = NoCall
    /\ \E instructions \in InstructionLists, payerAddress \in PayerStrs,
          priorityFee \in PriorityFees, blockhash \in {"ok", "fail"} :
          enc' = [op |-> "buildTransaction", instructions |-> instructions,
                  payerAddress |-> payerAddress, priorityFee |-> priorityFee,
                  result |-> buildTransaction(instructions, payerAddress, priorityFee,
                                              [blockhash |-> blockhash])]
    /\ UNCHANGED <<ts, build, adapterVars, registryVars, minOutCall, mr, testVars, configVars, raceVars>>

NextBuild ==
    \/ buildTransactionCall
    \/ ResponseWritten

SpecBuild == InitService /\ [][NextBuild]_vars

\* buildTransaction returned a transaction
BuiltTransaction == enc.op = "buildTransaction" /\ enc.result.err = NoErr

\* C25: when priorityFee > 0 the instructions of the built transaction are
\* one compute-budget instruction (no accounts; 9 bytes: 3, then the fee as a
\* little-endian u64) followed by the given instructions in their order; when
\* priorityFee = 0 they are the given instructions; and with a malformed
\* payer address buildTransaction fails without a ledger RPC call.
C25_PriorityFeeInstructionFirst ==
    enc.op = "buildTransaction" =>
        /\ (BuiltTransaction /\ enc.priorityFee > 0) =>
              LET all == enc.result.tx.Instructions
                  first == all[1]
              IN  /\ Len(all) = Len(enc.instructions) + 1
                  /\ SubSeq(all, 2, Len(all)) = enc.instructions
                  /\ first.ProgramID = ComputeBudgetProgramID
                  /\ first.Accounts = << >>
                  /\ Len(first.Data) = 9
                  /\ first.Data[1] = 3
                  /\ \A k \in 1..8 :
                        first.Data[k + 1] = ShiftRight(enc.priorityFee, k - 1) % 256
        /\ (BuiltTransaction /\ enc.priorityFee = 0) =>
              enc.result.tx.Instructions = enc.instructions
        /\ PublicKeyFromBase58(enc.payerAddress).err # NoErr =>
              /\ enc.result.err # NoErr
              /\ enc.result.tx = Nil
              /\ enc.result.rpc = << >>

\* a transaction built from two instructions with the fee 258
C25_Witness ==
    /\ BuiltTransaction
    /\ enc.priorityFee = 258
    /\ Len(enc.instructions) = 2
    /\ Len(enc.result.tx.Instructions) = 3

\* a call with a payer address that does not parse
C25_MalformedPayer ==
    /\ enc.op = "buildTransaction"
    /\ PublicKeyFromBase58(enc.payerAddress).err # NoErr
    /\ enc.result.rpc = << >>


\* the call in progress has signed the transaction
HasSigned == TestInProgress /\ "Signed" \in { tt.steps[k] : k \in 1..Len(tt.steps) }

\* C26: for every outcome of the ledger RPC calls made after signing,
\* TestTransaction does not crash, and what it returns is a response that
\* says success or carries an error message.
C26_EveryLedgerOutcomeIsAnswered ==
    HasSigned =>
        /\ tt.pc # "panicked"
        /\ TestAnswered =>
              /\ tt.out # Crashed
              /\ tt.out.goErr = NoErr
              /\ tt.out.resp.Success \/ tt.out.resp.Error # NoMessage


(***************************************************************************)
(* Two goroutines on the configuration the services share.  ConfigService  *)
(* and DEXService hold the same *config.Config and take no lock, so a      *)
(* request that changes cfg.DEXes runs step by step against a ListDEXes    *)
(* that ranges over it.  A slice is a header (array, len) and a backing    *)
(* array; one entry is read or written per step, and one writer is at work *)
(* at a time.  The save to the file, which follows the writes, is left     *)
(* out.                                                                    *)
(***************************************************************************)
\* the zero value of config.DEXConfig, in the spare capacity of an array
ZeroDEXConfig == DEXConfig("", EmptyStr, EmptyStr, FALSE, 0)

\* cfg.DEXes as a goroutine reads it through the header m.hdr
Slice(m) == SubSeq(m.arrays[m.hdr.array], 1, m.hdr.len)

\* n zero entries
Spare(n) == [k \in 1..n |-> ZeroDEXConfig]

RaceStartLists ==
    { <<RaydiumConfig(TRUE), PumpfunConfig(TRUE)>>,
      <<RaydiumConfig(TRUE), PumpfunConfig(TRUE), PumpSwapConfig(FALSE)>> }

RaceAddInputs == {PumpSwapConfig(TRUE), RaydiumConfig(TRUE)}

\* the writer's state: the operation, the list when it began and the list
\* it is to leave, the entry or index it works with, and its position in the
\* copy
Writing(pc, op, arg, k, err, after) ==
    [pc |-> pc, op |-> op, before |-> Slice(mem), after |-> after, arg |-> arg,
     k |-> k, err |-> err]

\* a ListDEXes under way runs concurrently with the operation that begins:
\* the list that operation leaves is one it may answer with
Overlaps(after) ==
    reader' = IF reader.pc = "range"
              THEN [reader EXCEPT !.seen = @ \cup {after}, !.overlaps = @ + 1]
              ELSE reader

\* a writer is free to begin
WriterFree ==
    /\ mem # Nil
    /\ writer.pc = "idle"
    /\ reader.pc = "range" => reader.overlaps < MaxOverlap

\* dexes without its entry at index
WithoutEntry(dexes, index) ==
    SubSeq(dexes, 1, index - 1) \o SubSeq(dexes, index + 1, Len(dexes))

\* RemoveDEXConfig, lines 134-144: the search
RemoveDEXConfigBegin ==
    /\ WriterFree
    /\ \E dexName \in DEXNameInputs :
       LET index == IndexOfDEX(Slice(mem), dexName)
       IN  IF index = 0
           THEN /\ writer' = Writing("return", "RemoveDEXConfig", index, 0,
                                     "DEX not found", Slice(mem))
                /\ Overlaps(Slice(mem))
           ELSE /\ writer' = Writing("shift", "RemoveDEXConfig", index, index, NoErr,
                                     WithoutEntry(Slice(mem), index))
                /\ Overlaps(WithoutEntry(Slice(mem), index))
    /\ UNCHANGED mem
    /\ UNCHANGED <<adapterVars, registryVars, minOutCall, mr, serviceVars, testVars, configVars>>

\* line 147, append(DEXes[:index], DEXes[index+1:]...): the entries after
\* index are copied one place down inside the backing array
RemoveShift ==
    /\ writer.pc = "shift"
    /\ writer.k < mem.hdr.len
    /\ mem' = [mem EXCEPT !.arrays[mem.hdr.array][writer.k] =
                             mem.arrays[mem.hdr.array][writer.k + 1]]
    /\ writer' = [writer EXCEPT !.k = @ + 1]
    /\ UNCHANGED reader
    /\ UNCHANGED <<adapterVars, registryVars, minOutCall, mr, serviceVars, testVars, configVars>>

\* line 147, the assignment to cs.config.DEXes: the header with len - 1
RemoveStore ==
    /\ writer.pc = "shift"
    /\ writer.k >= mem.hdr.len
    /\ mem' = [mem EXCEPT !.hdr.len = @ - 1]
    /\ writer' = [writer EXCEPT !.pc = "return"]
    /\ UNCHANGED reader
    /\ UNCHANGED <<adapterVars, registryVars, minOutCall, mr, serviceVars, testVars, configVars>>

\* AddDEXConfig, lines 93-118: the checks and the defaults
AddDEXConfigBegin ==
    /\ WriterFree
    /\ \E dexConfig \in RaceAddInputs :
       LET out == AddDEXConfig([a \in {StartupAddr} |-> Config(Slice(mem))],
                               StartupAddr, Nil, dexConfig, TRUE)
       IN  /\ writer' = IF out.err # NoErr
                         THEN Writing("return", "AddDEXConfig", dexConfig, 0, out.err,
                                      Slice(mem))
                         ELSE Writing("append", "AddDEXConfig", DEXDefaults(dexConfig), 0,
                                      NoErr, out.heap[out.cs].DEXes)
           /\ Overlaps(out.heap[out.cs].DEXes)
    /\ UNCHANGED mem
    /\ UNCHANGED <<adapterVars, registryVars, minOutCall, mr, serviceVars, testVars, configVars>>

\* line 121, append(DEXes, dexConfig): with spare capacity the entry is
\* written after the last one, otherwise into a copy of twice the capacity
AddAppend ==
    /\ writer.pc = "append"
    /\ LET array == mem.arrays[mem.hdr.array]
       IN  IF mem.hdr.len < Len(array)
           THEN /\ mem' = [mem EXCEPT !.arrays[mem.hdr.array][mem.hdr.len + 1] = writer.arg]
                /\ writer' = [writer EXCEPT !.pc = "store", !.k = mem.hdr.array]
           ELSE /\ mem' = [mem EXCEPT !.arrays =
                              Append(@, array \o <<writer.arg>> \o Spare(Len(array) - 1))]
                /\ writer' = [writer EXCEPT !.pc = "store", !.k = Len(mem.arrays) + 1]
    /\ UNCHANGED reader
    /\ UNCHANGED <<adapterVars, registryVars, minOutCall, mr, serviceVars, testVars, configVars>>

\* line 121, the assignment to cs.config.DEXes
AddStore ==
    /\ writer.pc = "store"
    /\ mem' = [mem EXCEPT !.hdr = [array |-> writer.k, len |-> mem.hdr.len + 1]]
    /\ writer' = [writer EXCEPT !.pc = "return"]
    /\ UNCHANGED reader
    /\ UNCHANGED <<adapterVars, registryVars, minOutCall, mr, serviceVars, testVars, configVars>>

\* setDEXEnabled, lines 169-181: the search and the write of one field
SetDEXEnabledCall ==
    /\ WriterFree
    /\ \E dexName \in DEXNameInputs, enabled \in BOOLEAN :
       LET index == IndexOfDEX(Slice(mem), dexName)
           after == [Slice(mem) EXCEPT ![index].Enabled = enabled]
       IN  IF index = 0
           THEN /\ writer' = Writing("return", "setDEXEnabled", index, 0,
                                     "DEX not found", Slice(mem))
                /\ mem' = mem
                /\ Overlaps(Slice(mem))
           ELSE /\ writer' = Writing("return", "setDEXEnabled", index, 0, NoErr, after)
                /\ mem' = [mem EXCEPT !.arrays[mem.hdr.array][index].Enabled = enabled]
                /\ Overlaps(after)
    /\ UNCHANGED <<adapterVars, registryVars, minOutCall, mr, serviceVars, testVars, configVars>>

\* the operation returns
WriterReturn ==
    /\ writer.pc = "return"
    /\ writer' = NoRequest
    /\ UNCHANGED <<mem, reader>>
    /\ UNCHANGED <<adapterVars, registryVars, minOutCall, mr, serviceVars, testVars, configVars>>

\* ListDEXes, line 447: the range expression ds.config.DEXes is evaluated
\* once.  seen holds the lists before and after every change that runs
\* concurrently with this call.
ListDEXesBegin ==
    /\ mem # Nil /\ reader.pc = "idle"
    /\ reader' = [pc |-> "range", hdr |-> mem.hdr, k |-> 0, read |-> << >>,
                  seen |-> IF writer.pc = "idle" THEN {Slice(mem)}
                           ELSE {writer.before, writer.after},
                  overlaps |-> IF writer.pc = "idle" THEN 0 ELSE 1,
                  result |-> Nil]
    /\ UNCHANGED <<mem, writer>>
    /\ UNCHANGED <<adapterVars, registryVars, minOutCall, mr, serviceVars, testVars, configVars>>

\* lines 447-461: one iteration copies the next entry out of the array
ListDEXesStep ==
    /\ reader.pc = "range"
    /\ reader.k < reader.hdr.len
    /\ reader' = [reader EXCEPT !.k = @ + 1,
                                !.read = Append(@, mem.arrays[reader.hdr.array][reader.k + 1])]
    /\ UNCHANGED <<mem, writer>>
    /\ UNCHANGED <<adapterVars, registryVars, minOutCall, mr, serviceVars, testVars, configVars>>

\* line 463: the infos of the entries read
ListDEXesEnd ==
    /\ reader.pc = "range"
    /\ reader.k >= reader.hdr.len
    /\ reader' = [reader EXCEPT !.pc = "done", !.result = ListDEXes(Config(reader.read))]
    /\ UNCHANGED <<mem, writer>>
    /\ UNCHANGED <<adapterVars, registryVars, minOutCall, mr, serviceVars, testVars, configVars>>

ListDEXesReturn ==
    /\ reader.pc = "done"
    /\ reader' = NoRequest
    /\ UNCHANGED <<mem, writer>>
    /\ UNCHANGED <<adapterVars, registryVars, minOutCall, mr, serviceVars, testVars, configVars>>

\* the services are constructed with one configuration, whose DEXes slice
\* is as long as its array
InitRace ==
    /\ AdapterIdle /\ RegistryIdle /\ MinOutIdle /\ RetryIdle /\ ServiceIdle
    /\ TestIdle /\ ConfigIdle
    /\ \E dexes \in RaceStartLists :
          mem = [hdr |-> [array |-> 1, len |-> Len(dexes)], arrays |-> <<dexes>>]
    /\ writer = NoRequest
    /\ reader = NoRequest

NextRace ==
    \/ RemoveDEXConfigBegin
    \/ RemoveShift
    \/ RemoveStore
    \/ AddDEXConfigBegin
    \/ AddAppend
    \/ AddStore
    \/ SetDEXEnabledCall
    \/ WriterReturn
    \/ ListDEXesBegin
    \/ ListDEXesStep
    \/ ListDEXesEnd
    \/ ListDEXesReturn

SpecRace == InitRace /\ [][NextRace]_vars

\* C27: a ListDEXes that runs concurrently with a configuration change
\* answers with the DEX list before the change or the list after it.
C27_ReaderSeesBeforeOrAfter ==
    reader.pc = "done" =>
        reader.result \in { ListDEXes(Config(dexes)) : dexes \in reader.seen }


(***************************************************************************)
(* AddDEXConfig and RemoveDEXConfig as list operations.                    *)
(***************************************************************************)
Names(dexes) == [k \in 1..Len(dexes) |-> dexes[k].Name]

\* the call that has just returned did not fail to save the file
Persisted == obs'.err # "failed to save config"

\* the entry has a name and a program id
ValidEntry(dex) == dex.Name # "" /\ dex.ProgramID # EmptyStr

\* AddDEXConfig of an entry whose name is absent appends that one entry
AddAppendsOne ==
    /\ obs'.err = NoErr
    /\ Len(GetConfig'.DEXes) = Len(GetConfig.DEXes) + 1
    /\ SubSeq(GetConfig'.DEXes, 1, Len(GetConfig.DEXes)) = GetConfig.DEXes
    /\ GetConfig'.DEXes[Len(GetConfig'.DEXes)].Name = obs'.arg.Name

\* the call that has just returned failed and left the list as it was
FailsUnchanged == obs'.err # NoErr /\ GetConfig'.DEXes = GetConfig.DEXes

\* RemoveDEXConfig: a present name loses its first entry, the others keep
\* their order; an absent name is an error.  And a RemoveDEXConfig right
\* after the AddDEXConfig of that name restores the names.
RemoveStep ==
    /\ (obs'.op = "RemoveDEXConfig" /\ Persisted) =>
          IF IndexOfDEX(GetConfig.DEXes, obs'.arg) # 0
          THEN /\ obs'.err = NoErr
               /\ GetConfig'.DEXes =
                     WithoutEntry(GetConfig.DEXes, IndexOfDEX(GetConfig.DEXes, obs'.arg))
          ELSE FailsUnchanged
    /\ (/\ obs.op = "AddDEXConfig" /\ obs.err = NoErr
        /\ obs'.op = "RemoveDEXConfig" /\ obs'.arg = obs.arg.Name /\ Persisted) =>
          Names(GetConfig'.DEXes) = Names(obs.before)

\* C28 as the specification states it: with persistence succeeding,
\* AddDEXConfig with a name not yet present appends exactly one entry,
\* whatever else the entry holds; with a name already present it fails and
\* leaves the list unchanged; RemoveDEXConfig of a present name removes that
\* entry and keeps the others in order, of an absent name fails; an
\* AddDEXConfig followed by the RemoveDEXConfig of the new name restores the
\* list of names.
C28_AnyAbsentNameIsAppended ==
    [][ /\ (obs'.op = "AddDEXConfig" /\ Persisted) =>
              IF IndexOfDEX(GetConfig.DEXes, obs'.arg.Name) = 0
              THEN AddAppendsOne ELSE FailsUnchanged
        /\ RemoveStep ]_vars

\* C28, for entries that AddDEXConfig accepts: with persistence succeeding,
\* AddDEXConfig of an entry that has a name and a program id and whose name
\* is not yet present appends exactly that one entry; with a name already
\* present it fails and leaves the list unchanged; RemoveDEXConfig of a
\* present name removes its first entry and keeps the others in order, of an
\* absent name fails; an AddDEXConfig followed by the RemoveDEXConfig of
\* the new name restores the list of names.
C28_AddThenRemoveRestores ==
    [][ /\ (obs'.op = "AddDEXConfig" /\ Persisted) =>
              IF IndexOfDEX(GetConfig.DEXes, obs'.arg.Name) # 0 THEN FailsUnchanged
              ELSE IF ValidEntry(obs'.arg) THEN AddAppendsOne
              ELSE FailsUnchanged
        /\ RemoveStep ]_vars

\* a RemoveDEXConfig has taken an entry from the middle or the front of a
\* list that an AddDEXConfig had extended
C28_Witness ==
    /\ obs.op = "RemoveDEXConfig"
    /\ obs.err = NoErr
    /\ Len(obs.before) >= 2
    /\ obs.before[Len(obs.before)].Name # obs.arg
    /\ Len(GetConfig.DEXes) = Len(obs.before) - 1


(***************************************************************************)
(* Validation against build, for the adapter calls of Spec.                *)
(***************************************************************************)
\* the adapter a recorded call was made on
CalledAdapter == CHOOSE adapter \in TheAdapters : adapter.kind = call.adapter

\* C29: for every adapter and every swap request, ValidateRequest returns
\* no error exactly when BuildSwapInstruction returns an instruction.
C29_ValidationAgreesWithBuild ==
    (call.op = "BuildSwapInstruction" /\ ~call.req.isNil) =>
        (ValidateRequest(CalledAdapter, call.req) = NoErr
            <=> (call.err = NoErr /\ call.instr # Nil))


\* C30: a ConfigService mutation (UpdateConfig, UpdateDEXConfig,
\* AddDEXConfig, RemoveDEXConfig, EnableDEX, DisableDEX) that returns an
\* error leaves the configuration that GetConfig returns as it was before
\* the call.
C30_FailedMutationChangesNothing ==
    [][ (obs'.op \in KeyedOperations /\ obs'.err # NoErr) => GetConfig' = GetConfig ]_vars


=============================================================================
